---- MODULE Spec2Model ----
(***************************************************************************)
(* A model of the cuboard move buffer, key parser and keymap input         *)
(* (src/src/cuboard.rs) over the 12-move alphabet of src/src/cube.rs.      *)
(*                                                                         *)
(* Indices and ranges are the Rust ones (0-based, half-open); a TLA+       *)
(* sequence element ms[i + 1] is the Rust element ms[i].                   *)
(* An Option<T> is a sequence of length at most one: <<>> is None and      *)
(* <<x>> is Some(x).                                                       *)
(***************************************************************************)
EXTENDS Integers, Sequences, FiniteSets, TLC

VARIABLES
    moves,      \* CuboardBuffer.moves
    keys,       \* CuboardBuffer.keys: records [main, num, is_shifted, start, end]
    last,       \* the last call made on the buffer, its locals and its result
    inp,        \* the last call made on the CuboardInput and its result
    p_value,    \* CuboardKey::parse: the moves it is given
    p_start,    \* CuboardKey::parse: the index it starts at
    p_res,      \* CuboardKey::parse: Some(keys it returned), None before the call
    count,      \* CuboardInputMessageHandler.count: Option<u8>
    event,      \* what the last CuboardInput::handle_message returned
    queue,      \* the notifications sent and not yet handled, oldest first
    dev_count,  \* the cube's 8-bit move counter
    dev_moves,  \* the cube's last 7 move codes, most recent first
    unsent,     \* moves the cube made since the last notification of its counter
    phys,       \* every move the cube made, in order
    fed,        \* every move handle_message fed into the buffer, in order
    last_made,  \* how many moves the cube had made when it sent the last
                \* handled message that carried the counter to the handler
    hm,         \* the last CuboardInput::handle_message call: the message,
                \* the count it found and the moves it fed into the buffer
    status,     \* the notification loop: "running", "returned" or "panicked"
    accepted_text,  \* CuboardInputPrinter.accepted_text
    note,       \* the last notification the loop took and what became of it
    calls,      \* how many times the loop has called the handler
    d_data,     \* ResponseMessage::decode: the bytes it is given
    d_res,      \* ResponseMessage::decode: Some(outcome), None before the call
    ended,      \* the notification stream has ended: next() yields None
    b_kind,     \* the bit cursor: the decode branch or the request it serves
    b_todo,     \* the bit cursor: the widths of the calls still to come
    b_index,    \* Biter.index / BiterMut.index
    b_top,      \* the highest byte index the cursor has addressed, -1 for none
    k_id,       \* make_cipher: the manufacturer data of the device, or None
    k_cipher,   \* make_cipher: Some(what it returned), None before the call
    k_frame,    \* the 20-byte frame given to encrypt
    k_out,      \* Some(the frame encrypted, and that decrypted), None before
    o_a,        \* CubeOrientation operands: a, b and c
    o_b,
    o_c,
    o_res,      \* Some(the sums and negations of a, b and c), None before
    ui          \* Some(what the terminal handler did at its last call), or None

bufvars == <<moves, keys, last, inp>>

parsevars == <<p_value, p_start, p_res>>

devvars == <<count, event, queue, dev_count, dev_moves, unsent, phys, fed,
             last_made>>

handlervars == <<hm>>

loopvars == <<status, accepted_text, note, calls>>

decodevars == <<d_data, d_res>>

cursorvars == <<b_kind, b_todo, b_index, b_top>>

ciphervars == <<k_id, k_cipher, k_frame, k_out>>

orientvars == <<o_a, o_b, o_c, o_res>>

unitvars == <<ended, cursorvars, ciphervars, orientvars, ui>>

linkvars == <<handlervars, loopvars, decodevars, unitvars>>

vars == <<bufvars, parsevars, devvars, linkvars>>

(***************************************************************************)
(* Bounds of the model.                                                    *)
(***************************************************************************)
\* the longest move list a call may leave in the buffer
MaxMoves == 4

\* the longest move list CuboardKey::parse is given
MaxParse == 4

\* the longest move list a CuboardInput call may leave in the buffer
MaxTyped == 5

\* the most moves one CuboardInput::input call is given
MaxBurst == 2

\* the most moves the cube makes in a session
MaxPhys == 7

\* the most notifications waiting to be handled
MaxQueue == 1

(***************************************************************************)
(* CubeMove: the enum's discriminants (repr u8).                           *)
(***************************************************************************)
U == 0
Up == 1
R == 2
Rp == 3
F == 4
Fp == 5
D == 6
Dp == 7
L == 8
Lp == 9
B == 10
Bp == 11

CubeMove == 0 .. 11

\* CubeMove::rev
rev(m) == ((m \div 2) * 2) + (((m % 2) + 1) % 2)

\* CubeMove::abs
abs(m) == (m \div 2) * 2

\* CubeMove::commute
commute(a, b) == ((a \div 2) % 3) = ((b \div 2) % 3)

(***************************************************************************)
(* CuboardKey                                                              *)
(***************************************************************************)
\* CuboardKey::KEYS, indexed by the main move's discriminant (here + 1)
KEYS ==
    << <<L, B, R, F>>, <<L, B, R, F>>,
       <<D, F, U, B>>, <<D, F, U, B>>,
       <<U, R, D, L>>, <<U, R, D, L>>,
       <<B, L, F, R>>, <<B, L, F, R>>,
       <<F, D, B, U>>, <<F, D, B, U>>,
       <<R, U, L, D>>, <<R, U, L, D>> >>

\* Iterator::position: Some(index of the first element equal to adj), or None
position(order, adj) ==
    LET hits == {i \in 1 .. Len(order) : order[i] = adj}
    IN  IF hits = {} THEN <<>>
        ELSE <<(CHOOSE i \in hits : \A j \in hits : i <= j) - 1>>

\* match_head that looks up the adjacent move with its direction
match_head_no_abs(value, start) ==
    LET n == Len(value) - start
    IN  IF n >= 3 /\ value[start + 1] = value[start + 2]
              /\ value[start + 1] # value[start + 3]
        THEN << <<value[start + 1], value[start + 3], TRUE>> >>
        ELSE IF n >= 2 /\ value[start + 1] # value[start + 2]
        THEN << <<value[start + 1], value[start + 2], FALSE>> >>
        ELSE <<>>

\* the slice pattern match of CuboardKey::parse on value[start..]:
\* Some(<<main, adj, is_shifted>>) or None
match_head(value, start) ==
    LET n == Len(value) - start
    IN  IF n >= 3 /\ value[start + 1] = value[start + 2]
              /\ value[start + 1] # value[start + 3]
        THEN << <<value[start + 1], abs(value[start + 3]), TRUE>> >>
        ELSE IF n >= 2 /\ value[start + 1] # value[start + 2]
        THEN << <<value[start + 1], abs(value[start + 2]), FALSE>> >>
        ELSE <<>>

\* parse that skips a move where no key starts and goes on
RECURSIVE parse_skipping(_, _)
parse_skipping(value, start) ==
    LET head == match_head(value, start)
        num == IF head = <<>> THEN <<>>
               ELSE position(KEYS[head[1][1] + 1], head[1][2])
        end == IF head # <<>> /\ head[1][3] THEN start + 3 ELSE start + 2
    IN  IF start >= Len(value) THEN <<>>
        ELSE IF num = <<>> THEN parse_skipping(value, start + 1)
        ELSE << [main |-> head[1][1], num |-> num[1],
                 is_shifted |-> head[1][3],
                 start |-> start, end |-> end] >>
             \o parse_skipping(value, end)

\* CuboardKey::parse
RECURSIVE parse(_, _)
parse(value, start) ==
    LET head == match_head(value, start)
    IN  IF head = <<>> THEN <<>>
        ELSE LET main == head[1][1]
                 adj == head[1][2]
                 is_shifted == head[1][3]
                 num == position(KEYS[main + 1], adj)
                 end == IF is_shifted THEN start + 3 ELSE start + 2
             IN  IF num = <<>> THEN <<>>
                 ELSE << [main |-> main, num |-> num[1],
                          is_shifted |-> is_shifted,
                          start |-> start, end |-> end] >>
                      \o parse(value, end)

(***************************************************************************)
(* CuboardBuffer                                                           *)
(***************************************************************************)
\* keys.last().map_or(0, |k| k.1.end)
chunk_end(ks) == IF ks = <<>> THEN 0 ELSE ks[Len(ks)].end

\* CuboardBuffer::remains
remains(ms, ks) == SubSeq(ms, chunk_end(ks) + 1, Len(ms))

\* .rev().take_while(|a| a.commute(mv)): the lowest index the scan reaches
RECURSIVE take_while_commute(_, _, _)
take_while_commute(ms, mv, i) ==
    IF i = 0 \/ ~commute(ms[i], mv) THEN i
    ELSE take_while_commute(ms, mv, i - 1)

\* .skip_while(|a| a.abs() != mv.abs()) inside the commuting suffix
RECURSIVE skip_while_other(_, _, _, _)
skip_while_other(ms, mv, i, lo) ==
    IF i = lo \/ abs(ms[i]) = abs(mv) THEN i
    ELSE skip_while_other(ms, mv, i - 1, lo)

\* .take_while(|a| a.abs() == mv.abs()) after the skip
RECURSIVE take_while_same(_, _, _, _)
take_while_same(ms, mv, i, lo) ==
    IF i = lo \/ abs(ms[i]) # abs(mv) THEN i
    ELSE take_while_same(ms, mv, i - 1, lo)

\* collapsed_range that does not skip the moves of the opposite face
collapsed_range_no_skip(ms, mv) ==
    LET lo == take_while_commute(ms, mv, Len(ms))
        j == Len(ms)
        i == take_while_same(ms, mv, j, lo)
    IN  IF j = lo THEN [start |-> Len(ms), end |-> Len(ms)]
        ELSE [start |-> i, end |-> j]

\* collapsed_range of CuboardBuffer::input
collapsed_range(ms, mv) ==
    LET lo == take_while_commute(ms, mv, Len(ms))
        j == skip_while_other(ms, mv, Len(ms), lo)
        i == take_while_same(ms, mv, j, lo)
    IN  IF j = lo THEN [start |-> Len(ms), end |-> Len(ms)]
        ELSE [start |-> i, end |-> j]

\* broken_keys_count that also counts a key ending where the run starts
RECURSIVE broken_keys_count_inclusive(_, _)
broken_keys_count_inclusive(ks, start) ==
    IF ks = <<>> \/ ~(ks[Len(ks)].end >= start) THEN 0
    ELSE 1 + broken_keys_count_inclusive(SubSeq(ks, 1, Len(ks) - 1), start)

\* broken_keys_count that compares the start of a key's range, not its end
RECURSIVE broken_keys_count_by_start(_, _)
broken_keys_count_by_start(ks, start) ==
    IF ks = <<>> \/ ~(ks[Len(ks)].start > start) THEN 0
    ELSE 1 + broken_keys_count_by_start(SubSeq(ks, 1, Len(ks) - 1), start)

\* broken_keys_count of CuboardBuffer::input
RECURSIVE broken_keys_count(_, _)
broken_keys_count(ks, start) ==
    IF ks = <<>> \/ ~(ks[Len(ks)].end > start) THEN 0
    ELSE 1 + broken_keys_count(SubSeq(ks, 1, Len(ks) - 1), start)

\* collapse that lets a run of two equal turns wrap to one at the third
collapse_wraps_at_three(subseq, mv) ==
    IF subseq = <<mv, mv>> THEN <<mv>>
    ELSE IF subseq = <<>> \/ subseq[Len(subseq)] = mv THEN Append(subseq, mv)
    ELSE SubSeq(subseq, 1, Len(subseq) - 1)

\* collapse that drops the whole run when the turn is the opposite one
collapse_drops_run(subseq, mv) ==
    IF subseq = <<>> \/ subseq[Len(subseq)] = mv THEN Append(subseq, mv)
    ELSE <<>>

\* collapse that does not push a turn the run already ends with
collapse_no_repeat(subseq, mv) ==
    IF subseq = <<>> THEN <<mv>>
    ELSE IF subseq[Len(subseq)] = mv THEN subseq
    ELSE SubSeq(subseq, 1, Len(subseq) - 1)

\* subseq of CuboardBuffer::input after the push or the pop
collapse(subseq, mv) ==
    IF subseq = <<>> \/ subseq[Len(subseq)] = mv THEN Append(subseq, mv)
    ELSE SubSeq(subseq, 1, Len(subseq) - 1)

\* where CuboardBuffer::input puts the updated run back
reinsert(ms, range, subseq) ==
    SubSeq(ms, 1, range.start) \o SubSeq(ms, range.end + 1, Len(ms)) \o subseq

\* CuboardBuffer::input that keeps the keys the collapsed range has broken
buffer_input_keeps_broken(ms, ks, mv) ==
    LET range == collapsed_range(ms, mv)
        broken == broken_keys_count(ks, range.start)
        subseq == collapse(SubSeq(ms, range.start + 1, range.end), mv)
        ms2 == reinsert(ms, range, subseq)
        new_keys == parse(ms2, chunk_end(ks))
    IN  [moves |-> ms2,
         keys |-> ks \o new_keys,
         range |-> range,
         broken |-> broken,
         key_changed |-> (broken > 0 \/ new_keys # <<>>)]

\* CuboardBuffer::input: the buffer after the call, its locals and its result
buffer_input(ms, ks, mv) ==
    LET range == collapsed_range(ms, mv)
        broken == broken_keys_count(ks, range.start)
        subseq == collapse(SubSeq(ms, range.start + 1, range.end), mv)
        ms2 == reinsert(ms, range, subseq)
        kept == SubSeq(ks, 1, Len(ks) - broken)
        new_keys == parse(ms2, chunk_end(kept))
    IN  [moves |-> ms2,
         keys |-> kept \o new_keys,
         range |-> range,
         broken |-> broken,
         key_changed |-> (broken > 0 \/ new_keys # <<>>)]

\* buffer_flush that does not drain the moves
buffer_flush_keeps_moves(ms, ks) ==
    [moves |-> ms,
     keys |-> <<>>,
     res |-> [i \in 1 .. Len(ks) |->
                [main |-> ks[i].main, num |-> ks[i].num,
                 is_shifted |-> ks[i].is_shifted]]]

\* CuboardBuffer::flush: the buffer after the call and the keys it returns
buffer_flush(ms, ks) ==
    [moves |-> SubSeq(ms, chunk_end(ks) + 1, Len(ms)),
     keys |-> <<>>,
     res |-> [i \in 1 .. Len(ks) |->
                [main |-> ks[i].main, num |-> ks[i].num,
                 is_shifted |-> ks[i].is_shifted]]]

\* what `last` holds of a call
Call(op, mv, range, broken, key_changed, res) ==
    [op |-> op, mv |-> mv, range |-> range, broken |-> broken,
     key_changed |-> key_changed, res |-> res]

NoRange == [start |-> 0, end |-> 0]

\* the moves the calls are given: all three axes, both directions of three
\* faces and both faces of two axes
Turns == {U, Up, R, Rp, L, F, Fp, B}

(***************************************************************************)
(* CuboardInput                                                            *)
(***************************************************************************)
\* DEFAULT_KEYMAP[is_shifted][main][num]; "backtick" stands for the grave
\* accent, which a string of this language cannot hold
DEFAULT_KEYMAP ==
    << << <<"d", "u", "c", "k">>, <<"(", "[", "{", "<">>,
          <<"g", "a", "s", "p">>, <<"0", " ", "z", "q">>,
          <<"f", "l", "o", "w">>, <<"'", ".", ":", "!">>,
          <<"j", "i", "n", "x">>, <<"+", "-", "*", "/">>,
          <<"m", "y", "t", "h">>, <<"1", "2", "3", "4">>,
          <<"v", "e", "r", "b">>, <<"#", "~", "&", "_">> >>,
       << <<"D", "U", "C", "K">>, <<")", "]", "}", ">">>,
          <<"G", "A", "S", "P">>, <<"9", "\n", "Z", "Q">>,
          <<"F", "L", "O", "W">>, <<"\"", ",", ";", "?">>,
          <<"J", "I", "N", "X">>, <<"=", "|", "^", "\\">>,
          <<"M", "Y", "T", "H">>, <<"5", "6", "7", "8">>,
          <<"V", "E", "R", "B">>, <<"@", "$", "%", "backtick">> >> >>

\* CuboardInput::buffered_text: one character per key
buffered_text(ks) ==
    [i \in 1 .. Len(ks) |->
        DEFAULT_KEYMAP[IF ks[i].is_shifted THEN 2 ELSE 1][ks[i].main + 1][ks[i].num + 1]]

\* str::contains('\n')
contains_newline(text) == \E i \in 1 .. Len(text) : text[i] = "\n"

\* CuboardInput::finish: the buffer after the call and the text it returns
input_finish(ms, ks) ==
    [moves |-> <<>>, keys |-> <<>>, res |-> buffered_text(ks)]

\* one turn of the loop of CuboardInput::input; st is [moves, keys, res] and
\* the rest says whether this turn called finish and what remains() was then
input_turn(st, mv) ==
    LET r == buffer_input(st.moves, st.keys, mv)
        f == input_finish(r.moves, r.keys)
    IN  IF contains_newline(buffered_text(r.keys))
        THEN [moves |-> f.moves, keys |-> f.keys, res |-> st.res \o f.res,
              finished |-> TRUE, pending |-> remains(r.moves, r.keys)]
        ELSE [moves |-> r.moves, keys |-> r.keys, res |-> st.res,
              finished |-> FALSE, pending |-> <<>>]

\* CuboardInput::input
RECURSIVE input_moves(_, _, _)
input_moves(ms, ks, mvs) ==
    IF mvs = <<>>
    THEN [moves |-> ms, keys |-> ks, res |-> <<>>,
          finished |-> FALSE, pending |-> <<>>]
    ELSE LET before == input_moves(ms, ks, SubSeq(mvs, 1, Len(mvs) - 1))
         IN  input_turn(before, mvs[Len(mvs)])

\* what `inp` holds of a call: the call, the moves it was given, the text it
\* returned, whether its last loop turn called finish, and remains() then
InputCall(op, mvs, res, finished, pending) ==
    [op |-> op, mvs |-> mvs, res |-> res, finished |-> finished,
     pending |-> pending]

NoInputCall == InputCall("new", <<>>, <<>>, FALSE, <<>>)

(***************************************************************************)
(* Spec: a CuboardBuffer and the calls of its public methods.              *)
(***************************************************************************)
ParseIdle ==
    /\ p_value = <<>>
    /\ p_start = 0
    /\ p_res = <<>>

\* GyroGesture, and "None" for no gesture
Gestures == {"None", "TurningAround", "Shaking"}

\* CuboardInputEvent, and kind "None" for a returned None
Event(kind, accept, skip) == [kind |-> kind, accept |-> accept, skip |-> skip]

NoSlots == [i \in 1 .. 7 |-> <<>>]

DevIdle ==
    /\ count = <<>>
    /\ event = Event("None", <<>>, 0)
    /\ queue = <<>>
    /\ dev_count = 0
    /\ dev_moves = NoSlots
    /\ unsent = 0
    /\ phys = <<>>
    /\ fed = <<>>
    /\ last_made = 0

\* a decoded ResponseMessage as the handler reads it: its kind, and the
\* count and the 7 slots of a Moves or State message
Msg(kind, cnt, slots) == [kind |-> kind, count |-> cnt, moves |-> slots]

\* what `hm` holds of a call of CuboardInput::handle_message
HandlerCall(msg, prev, mvs) == [msg |-> msg, prev |-> prev, fed |-> mvs]

\* what `note` holds of the last notification taken: what the loop did with
\* it ("none", "skipped", "dropped", "panicked", "handled") and the error
\* decode gave
Note(did, err) == [did |-> did, err |-> err]

\* no message handled, no notification taken
LoopIdle ==
    /\ hm = HandlerCall(Msg("None", 0, NoSlots), <<>>, <<>>)
    /\ status = "running"
    /\ accepted_text = <<>>
    /\ note = Note("none", <<>>)
    /\ calls = 0

\* no cursor at work
CursorIdle ==
    /\ b_kind = "none"
    /\ b_todo = <<>>
    /\ b_index = 0
    /\ b_top = -1

\* no cipher made
CipherIdle ==
    /\ k_id = <<>>
    /\ k_cipher = <<>>
    /\ k_frame = <<>>
    /\ k_out = <<>>

\* no orientation computed
OrientIdle ==
    /\ o_a = 0
    /\ o_b = 0
    /\ o_c = 0
    /\ o_res = <<>>

\* the stream is open and none of the units has been used
UnitIdle ==
    /\ ended = FALSE
    /\ CursorIdle
    /\ CipherIdle
    /\ OrientIdle
    /\ ui = <<>>

LinkIdle ==
    /\ LoopIdle
    /\ d_data = <<>>
    /\ d_res = <<>>
    /\ UnitIdle

\* CuboardBuffer::new
Init ==
    /\ moves = <<>>
    /\ keys = <<>>
    /\ last = Call("new", U, NoRange, 0, FALSE, <<>>)
    /\ inp = NoInputCall
    /\ ParseIdle
    /\ LinkIdle
    /\ DevIdle

\* CuboardBuffer::input
Input(mv) ==
    LET r == buffer_input(moves, keys, mv)
    IN  /\ Len(r.moves) <= MaxMoves
        /\ moves' = r.moves
        /\ keys' = r.keys
        /\ last' = Call("input", mv, r.range, r.broken, r.key_changed, <<>>)
        /\ UNCHANGED <<linkvars, inp, parsevars, devvars>>

\* CuboardBuffer::flush
Flush ==
    LET r == buffer_flush(moves, keys)
    IN  /\ moves' = r.moves
        /\ keys' = r.keys
        /\ last' = Call("flush", U, NoRange, 0, FALSE, r.res)
        /\ UNCHANGED <<linkvars, inp, parsevars, devvars>>

\* CuboardBuffer::cancel
Cancel ==
    /\ moves' = <<>>
    /\ keys' = <<>>
    /\ last' = Call("cancel", U, NoRange, 0, FALSE, <<>>)
    /\ UNCHANGED <<linkvars, inp, parsevars, devvars>>

Next ==
    \/ \E mv \in Turns : Input(mv)
    \/ Flush
    \/ Cancel

Spec == Init /\ [][Next]_vars

(***************************************************************************)
(* SpecParse: CuboardKey::parse applied to every short move list.          *)
(***************************************************************************)
\* the move lists of length at most n
RECURSIVE MoveLists(_)
MoveLists(n) ==
    IF n = 0 THEN {<<>>}
    ELSE LET shorter == MoveLists(n - 1)
         IN  shorter \cup {Append(ms, m) : ms \in shorter, m \in CubeMove}

InitParse ==
    /\ moves = <<>>
    /\ keys = <<>>
    /\ last = Call("new", U, NoRange, 0, FALSE, <<>>)
    /\ inp = NoInputCall
    /\ p_value \in MoveLists(MaxParse)
    /\ p_start \in 0 .. Len(p_value)
    /\ p_res = <<>>
    /\ LinkIdle
    /\ DevIdle

\* CuboardKey::parse
Parse ==
    /\ p_res = <<>>
    /\ p_res' = <<parse(p_value, p_start)>>
    /\ UNCHANGED <<linkvars, p_value, p_start, bufvars, devvars>>

NextParse == Parse

SpecParse == InitParse /\ [][NextParse]_vars

(***************************************************************************)
(* SpecInput: a CuboardInput and the calls of its input, finish and cancel.*)
(***************************************************************************)
\* the moves a CuboardInput is given: those of the newline key (R', R', F),
\* the inverse of its main move, the face opposite its second face, and a
\* move of the third axis
TypedTurns == {U, R, Rp, F, B}

\* the non-empty move lists of length at most n over TypedTurns
RECURSIVE Bursts(_)
Bursts(n) ==
    IF n = 0 THEN {}
    ELSE {<<m>> : m \in TypedTurns}
            \cup {Append(ms, m) : ms \in Bursts(n - 1), m \in TypedTurns}

\* CuboardInput::input
TypeMoves(mvs) ==
    LET r == input_moves(moves, keys, mvs)
    IN  /\ Len(r.moves) <= MaxTyped
        /\ moves' = r.moves
        /\ keys' = r.keys
        /\ inp' = InputCall("input", mvs, r.res, r.finished, r.pending)
        /\ UNCHANGED <<linkvars, last, parsevars, devvars>>

\* CuboardInput::finish
Finish ==
    LET r == input_finish(moves, keys)
    IN  /\ moves' = r.moves
        /\ keys' = r.keys
        /\ inp' = InputCall("finish", <<>>, r.res, FALSE, <<>>)
        /\ UNCHANGED <<linkvars, last, parsevars, devvars>>

\* CuboardInput::cancel
CancelInput ==
    /\ moves' = <<>>
    /\ keys' = <<>>
    /\ inp' = InputCall("cancel", <<>>, <<>>, FALSE, <<>>)
    /\ UNCHANGED <<linkvars, last, parsevars, devvars>>

NextInput ==
    \/ \E mvs \in Bursts(MaxBurst) : TypeMoves(mvs)
    \/ Finish
    \/ CancelInput

SpecInput == Init /\ [][NextInput]_vars

(***************************************************************************)
(* CuboardInput::handle_message                                            *)
(***************************************************************************)
\* u8::wrapping_sub
wrapping_sub(a, b) == (a - b + 256) % 256

\* new_slots with a saturating subtraction in place of the wrapping one
new_slots_saturating(cnt, prev_count) ==
    LET diff == IF cnt < prev_count THEN 0 ELSE cnt - prev_count
    IN  IF diff > 7 THEN 7 ELSE diff

\* the number of slots of a Moves message that are new: diff.clamp(0, 7)
new_slots(cnt, prev_count) ==
    LET diff == wrapping_sub(cnt, prev_count)
    IN  IF diff > 7 THEN 7 ELSE diff

\* accept_moves that takes the new slots from slot 0 upwards
RECURSIVE accept_moves_forward(_, _)
accept_moves_forward(slots, n) ==
    IF n = 0 THEN <<>>
    ELSE accept_moves_forward(slots, n - 1) \o slots[n]

\* moves[..n].iter().rev(), the unknown codes left out: accept_moves
RECURSIVE accept_moves(_, _)
accept_moves(slots, n) ==
    IF n = 0 THEN <<>>
    ELSE slots[n] \o accept_moves(slots, n - 1)

\* skip: 7usize.saturating_sub(diff), plus one for each unknown new slot
skipped(slots, cnt, prev_count) ==
    LET diff == wrapping_sub(cnt, prev_count)
        n == new_slots(cnt, prev_count)
    IN  (IF diff > 7 THEN 0 ELSE 7 - diff)
            + Cardinality({i \in 1 .. n : slots[i] = <<>>})

\* CuboardInput::handle_message that takes a Moves message for its counter
\* while no counter is stored
handle_message_counting_early(cnt, ms, ks, msg, gesture) ==
    IF cnt = <<>>
    THEN IF msg.kind = "State"
         THEN [count |-> <<msg.count>>, moves |-> ms, keys |-> ks,
               event |-> Event("Init", <<>>, 0), fed |-> <<>>]
         ELSE [count |-> IF msg.kind = "Moves" THEN <<msg.count>> ELSE cnt,
               moves |-> ms, keys |-> ks,
               event |-> Event("Uninit", <<>>, 0), fed |-> <<>>]
    ELSE IF msg.kind = "Gyroscope" /\ gesture = "TurningAround"
    THEN [count |-> cnt, moves |-> <<>>, keys |-> <<>>,
          event |-> Event("Finish", input_finish(ms, ks).res, 0), fed |-> <<>>]
    ELSE IF msg.kind = "Gyroscope" /\ gesture = "Shaking"
    THEN [count |-> cnt, moves |-> <<>>, keys |-> <<>>,
          event |-> Event("Cancel", <<>>, 0), fed |-> <<>>]
    ELSE IF msg.kind # "Moves"
    THEN [count |-> cnt, moves |-> ms, keys |-> ks,
          event |-> Event("None", <<>>, 0), fed |-> <<>>]
    ELSE LET prev_count == cnt[1]
             mvs == accept_moves(msg.moves, new_slots(msg.count, prev_count))
             r == input_moves(ms, ks, mvs)
         IN  [count |-> <<msg.count>>, moves |-> r.moves, keys |-> r.keys,
              event |-> Event("Input", r.res,
                              skipped(msg.moves, msg.count, prev_count)),
              fed |-> mvs]

\* CuboardInput::handle_message; gesture is what the recognizer returns for
\* a Gyroscope message. The result: the handler's count, the buffer, the
\* event returned and the moves fed into the buffer.
handle_message(cnt, ms, ks, msg, gesture) ==
    IF cnt = <<>>
    THEN IF msg.kind = "State"
         THEN [count |-> <<msg.count>>, moves |-> ms, keys |-> ks,
               event |-> Event("Init", <<>>, 0), fed |-> <<>>]
         ELSE [count |-> cnt, moves |-> ms, keys |-> ks,
               event |-> Event("Uninit", <<>>, 0), fed |-> <<>>]
    ELSE IF msg.kind = "Gyroscope" /\ gesture = "TurningAround"
    THEN [count |-> cnt, moves |-> <<>>, keys |-> <<>>,
          event |-> Event("Finish", input_finish(ms, ks).res, 0), fed |-> <<>>]
    ELSE IF msg.kind = "Gyroscope" /\ gesture = "Shaking"
    THEN [count |-> cnt, moves |-> <<>>, keys |-> <<>>,
          event |-> Event("Cancel", <<>>, 0), fed |-> <<>>]
    ELSE IF msg.kind # "Moves"
    THEN [count |-> cnt, moves |-> ms, keys |-> ks,
          event |-> Event("None", <<>>, 0), fed |-> <<>>]
    ELSE LET prev_count == cnt[1]
             mvs == accept_moves(msg.moves, new_slots(msg.count, prev_count))
             r == input_moves(ms, ks, mvs)
         IN  [count |-> <<msg.count>>, moves |-> r.moves, keys |-> r.keys,
              event |-> Event("Input", r.res,
                              skipped(msg.moves, msg.count, prev_count)),
              fed |-> mvs]

(***************************************************************************)
(* SpecDev: a cube that turns and notifies, and a CuboardInput that        *)
(* handles its notifications in the order they were sent.                  *)
(***************************************************************************)
\* the moves the cube makes
DevTurns == {R, U}

\* the counter value the cube starts from: a few moves before the wrap
InitCount == 250

\* the slots the cube starts with: moves made before the session (of a face
\* the session does not turn) and codes that are no move
InitSlots == << <<D>>, <<>>, <<D>>, <<D>>, <<>>, <<D>>, <<D>> >>

\* the cube has sent the State message that will initialise the handler
state_sent ==
    \/ count # <<>>
    \/ \E i \in 1 .. Len(queue) : queue[i].kind = "State"

InitDev ==
    /\ moves = <<>>
    /\ keys = <<>>
    /\ last = Call("new", U, NoRange, 0, FALSE, <<>>)
    /\ inp = NoInputCall
    /\ ParseIdle
    /\ LinkIdle
    /\ count = <<>>
    /\ event = Event("None", <<>>, 0)
    /\ queue = <<>>
    /\ dev_count = InitCount
    /\ dev_moves = InitSlots
    /\ unsent = 0
    /\ phys = <<>>
    /\ fed = <<>>
    /\ last_made = 0

\* the cube is turned: at most 7 moves between two notifications that carry
\* the counter to the handler. The moves made before the State message was
\* sent are those InitCount and InitSlots tell of.
DevTurn(mv) ==
    /\ Len(phys) < MaxPhys
    /\ state_sent
    /\ unsent < 7
    /\ dev_count' = (dev_count + 1) % 256
    /\ dev_moves' = << <<mv>> >> \o SubSeq(dev_moves, 1, 6)
    /\ unsent' = unsent + 1
    /\ phys' = Append(phys, mv)
    /\ UNCHANGED <<linkvars, bufvars, parsevars, count, event, queue, fed, last_made>>

\* the cube sends a Moves notification
DevNotifyMoves ==
    /\ Len(queue) < MaxQueue
    /\ queue' = Append(queue, [kind |-> "Moves", count |-> dev_count,
                               moves |-> dev_moves, made |-> Len(phys)])
    /\ unsent' = 0
    /\ UNCHANGED <<linkvars, bufvars, parsevars, count, event, dev_count, dev_moves,
                   phys, fed, last_made>>

\* the cube sends a State notification, once: the session requests the
\* cube state once, after it has subscribed to the notifications
DevNotifyState ==
    /\ ~state_sent
    /\ Len(queue) < MaxQueue
    /\ queue' = Append(queue, [kind |-> "State", count |-> dev_count,
                               moves |-> NoSlots, made |-> Len(phys)])
    /\ unsent' = 0
    /\ UNCHANGED <<linkvars, bufvars, parsevars, count, event, dev_count, dev_moves,
                   phys, fed, last_made>>

\* the notification loop hands the oldest notification to the handler
HandleMessage ==
    /\ queue # <<>>
    /\ \E r \in {handle_message(count, moves, keys, Head(queue), "None")} :
           /\ queue' = Tail(queue)
           /\ count' = r.count
           /\ moves' = r.moves
           /\ keys' = r.keys
           /\ event' = r.event
           /\ fed' = fed \o r.fed
           /\ last_made' = (IF r.event.kind \in {"Init", "Input"}
                            THEN Head(queue).made
                            ELSE last_made)
    /\ UNCHANGED <<linkvars, last, inp, parsevars, dev_count, dev_moves, unsent, phys>>

NextDev ==
    \/ \E mv \in DevTurns : DevTurn(mv)
    \/ DevNotifyMoves
    \/ DevNotifyState
    \/ HandleMessage

SpecDev == InitDev /\ [][NextDev]_vars

(***************************************************************************)
(* The vocabulary of the properties, stated without the code's arithmetic. *)
(***************************************************************************)
FacesOf == {{U, Up}, {R, Rp}, {F, Fp}, {D, Dp}, {L, Lp}, {B, Bp}}

AxesOf == {{U, Up, D, Dp}, {R, Rp, L, Lp}, {F, Fp, B, Bp}}

SameFace(a, b) == \E f \in FacesOf : a \in f /\ b \in f

SameAxis(a, b) == \E x \in AxesOf : a \in x /\ b \in x

Inverse(m) == CHOOSE x \in CubeMove : SameFace(x, m) /\ x # m

Count(ms, m) == Cardinality({k \in 1 .. Len(ms) : ms[k] = m})

\* index (from 1) of the first move of the commuting suffix of ms for mv
SuffixFrom(ms, mv) ==
    CHOOSE i \in 1 .. Len(ms) + 1 :
        /\ \A k \in i .. Len(ms) : SameAxis(ms[k], mv)
        /\ i > 1 => ~SameAxis(ms[i - 1], mv)

\* indices (from 1) of the trailing run of mv's face inside that suffix
RunOf(ms, mv) ==
    LET face == {k \in SuffixFrom(ms, mv) .. Len(ms) : SameFace(ms[k], mv)}
    IN  {k \in face : \A l \in k .. Len(ms) : l \in face \/ \A h \in face : h < l}

\* Rust index at which the run starts (the list's length when there is none)
RunStart(ms, mv) ==
    IF RunOf(ms, mv) = {} THEN Len(ms)
    ELSE (CHOOSE k \in RunOf(ms, mv) : \A h \in RunOf(ms, mv) : k <= h) - 1

\* the last Len(tail) moves of ms are tail
EndsWith(ms, tail) ==
    /\ Len(tail) <= Len(ms)
    /\ SubSeq(ms, Len(ms) - Len(tail) + 1, Len(ms)) = tail

Copies(m, n) == [i \in 1 .. n |-> m]

\* ms without the elements at the indices in gone
Without(ms, gone) ==
    LET F0[i \in 0 .. Len(ms)] ==
            IF i = 0 THEN <<>>
            ELSE IF i \in gone THEN F0[i - 1] ELSE Append(F0[i - 1], ms[i])
    IN  F0[Len(ms)]

\* the keys' values, without their ranges
key_values(ks) ==
    [i \in 1 .. Len(ks) |->
        [main |-> ks[i].main, num |-> ks[i].num, is_shifted |-> ks[i].is_shifted]]

\* the step is a call of CuboardBuffer::input
InputStep == last'.op = "input"

\* the step is a call of CuboardBuffer::flush
FlushStep == last'.op = "flush"

(***************************************************************************)
(* C2                                                                      *)
(***************************************************************************)
\* C2: when the trailing run of mv's face in the commuting suffix consists
\* of inverse(mv), input(mv) removes exactly one move of that run and adds
\* none: the list is one shorter, holds one inverse(mv) less and the same
\* number of every other move, and the rest of the run now ends the list.
\* Feeding R, R, R' into an empty buffer leaves exactly [R].
C2_OppositeTurnsCancel ==
    [][InputStep =>
        LET mv == last'.mv
            run == RunOf(moves, mv)
        IN  /\ (run # {} /\ \A k \in run : moves[k] = Inverse(mv)) =>
                /\ Len(moves') = Len(moves) - 1
                /\ \A m \in CubeMove :
                     Count(moves', m) =
                        Count(moves, m) - (IF m = Inverse(mv) THEN 1 ELSE 0)
                /\ moves' = Without(moves, run)
                              \o Copies(Inverse(mv), Cardinality(run) - 1)
            /\ (moves = <<>> /\ mv = R) => moves' = <<R>>
            /\ (moves = <<R>> /\ mv = R) => moves' = <<R, R>>
            /\ (moves = <<R, R>> /\ mv = Rp) => moves' = <<R>>
    ]_vars

\* R' has just been fed to a buffer holding [R, R] and [R] is left
C2_Witness ==
    /\ last.op = "input"
    /\ last.mv = Rp
    /\ last.range = [start |-> 0, end |-> 2]
    /\ moves = <<R>>

(***************************************************************************)
(* C3                                                                      *)
(***************************************************************************)
\* C3: when the commuting suffix holds no inverse(mv), input(mv) adds one
\* copy of mv and removes nothing; with no move of mv's face in the suffix
\* the new list is the old one followed by mv, and a run of moves equal to
\* mv becomes one longer.
C3_SameTurnsAccumulate ==
    [][InputStep =>
        LET mv == last'.mv
            run == RunOf(moves, mv)
            suffix == SuffixFrom(moves, mv) .. Len(moves)
        IN  (\A k \in suffix : moves[k] # Inverse(mv)) =>
                /\ Len(moves') = Len(moves) + 1
                /\ \A m \in CubeMove :
                     Count(moves', m) =
                        Count(moves, m) + (IF m = mv THEN 1 ELSE 0)
                /\ run = {} => moves' = Append(moves, mv)
                /\ run # {} =>
                     /\ \A k \in run : moves[k] = mv
                     /\ moves' = Without(moves, run)
                                   \o Copies(mv, Cardinality(run) + 1)
    ]_vars

\* R has just been fed to a buffer whose suffix held the run [R, R]
C3_Witness ==
    /\ last.op = "input"
    /\ last.mv = R
    /\ last.range.end - last.range.start = 2
    /\ EndsWith(moves, <<R, R, R>>)

(***************************************************************************)
(* C4                                                                      *)
(***************************************************************************)
\* C4: when input(mv) finds a non-empty run of mv's face, the updated run
\* (one longer or one shorter) takes the place of the old run: the moves
\* before the run, the run and the moves after it keep their order.
C4_RunReinsertedInPlace ==
    [][InputStep =>
        LET mv == last'.mv
            run == RunOf(moves, mv)
            s == RunStart(moves, mv)
            e == s + Cardinality(run)
            old == SubSeq(moves, s + 1, e)
            new == IF old[Len(old)] = mv THEN Append(old, mv)
                   ELSE SubSeq(old, 1, Len(old) - 1)
        IN  run # {} =>
                moves' = SubSeq(moves, 1, s) \o new
                           \o SubSeq(moves, e + 1, Len(moves))
    ]_vars

C8_KeyRangesWellFormed ==
    /\ \A i \in 1 .. Len(keys) :
         /\ keys[i].start = (IF i = 1 THEN 0 ELSE keys[i - 1].end)
         /\ keys[i].end = keys[i].start + (IF keys[i].is_shifted THEN 3 ELSE 2)
         /\ keys[i].end <= Len(moves)
    /\ chunk_end(keys) <= Len(moves)
    /\ Len(remains(moves, keys)) = Len(moves) - chunk_end(keys)
    /\ SubSeq(moves, 1, chunk_end(keys)) \o remains(moves, keys) = moves

\* a cancelling input has just shortened moves under a shifted key: the
\* key is gone and its first two moves remain
C8_Witness ==
    /\ last.op = "input"
    /\ last.broken = 1
    /\ last.range = [start |-> 2, end |-> 3]
    /\ keys = <<>>
    /\ Len(moves) = 2
    /\ moves[1] = moves[2]

(***************************************************************************)
(* C10                                                                     *)
(***************************************************************************)
\* C10: flush returns the recognized keys in recognition order, leaves
\* keys empty, removes from moves exactly the moves the keys covered and
\* leaves the unconsumed tail as it was.
C10_FlushDrainsConfirmedPrefix ==
    [][FlushStep =>
        LET covered == {k \in 1 .. Len(moves) :
                           \E i \in 1 .. Len(keys) :
                               keys[i].start < k /\ k <= keys[i].end}
        IN  /\ last'.res = key_values(keys)
            /\ keys' = <<>>
            /\ moves' = Without(moves, covered)
            /\ remains(moves', keys') = remains(moves, keys)
            /\ moves' = remains(moves, keys)
    ]_vars

\* a flush has just returned a key and left a move pending
C10_Witness ==
    /\ last.op = "flush"
    /\ Len(last.res) >= 1
    /\ moves # <<>>
    /\ keys = <<>>

(***************************************************************************)
(* C9                                                                      *)
(***************************************************************************)
\* C9: when the newline key becomes recognized during CuboardInput::input,
\* the recognized keys' text is returned and the moves no key consumed
\* (the remains at that moment) stay in the buffer.
C9_NewlineKeepsRemains ==
    (inp.op = "input" /\ inp.finished) =>
        /\ contains_newline(inp.res)
        /\ moves = inp.pending

(***************************************************************************)
(* C6, C7: CuboardKey::parse                                               *)
(***************************************************************************)
\* the adjacency row of a face, by the face's two moves
RowOf(m) ==
    IF m \in {U, Up} THEN <<L, B, R, F>>
    ELSE IF m \in {R, Rp} THEN <<D, F, U, B>>
    ELSE IF m \in {F, Fp} THEN <<U, R, D, L>>
    ELSE IF m \in {D, Dp} THEN <<B, L, F, R>>
    ELSE IF m \in {L, Lp} THEN <<F, D, B, U>>
    ELSE <<R, U, L, D>>

\* b's face is at index k (from 0) of the adjacency row of a
AtIndex(a, b, k) == SameFace(RowOf(a)[k + 1], b)

\* the positions at which the parse looked for a key: where it started and
\* where each key it found ended
ParsePositions(ks, from) == {from} \cup {ks[i].end : i \in 1 .. Len(ks)}

\* the moves of value from Rust index p on start a key
StartsKey(value, p) ==
    LET n == Len(value) - p
    IN  \/ n >= 2 /\ ~SameAxis(value[p + 1], value[p + 2])
        \/ /\ n >= 3
           /\ value[p + 1] = value[p + 2]
           /\ ~SameAxis(value[p + 1], value[p + 3])

\* the ways the moves from p on fail to start a key
StartsNoKey(value, p) ==
    LET n == Len(value) - p
    IN  \/ n < 2
        \/ n = 2 /\ value[p + 1] = value[p + 2]
        \/ /\ n >= 3
           /\ value[p + 1] = value[p + 2]
           /\ value[p + 2] = value[p + 3]
        \/ /\ n >= 2
           /\ value[p + 1] # value[p + 2]
           /\ SameAxis(value[p + 1], value[p + 2])
        \/ /\ n >= 3
           /\ value[p + 1] = value[p + 2]
           /\ value[p + 2] # value[p + 3]
           /\ SameAxis(value[p + 2], value[p + 3])

\* C6: at each parse position, moves a, b with a # b and face(b) at index k
\* of a's row give the key (a, k, unshifted) over 2 moves, and moves a, a, b
\* with a # b and face(b) at index k give (a, k, shifted) over 3 moves; every
\* key is one of these; b's direction does not matter and a and inverse(a)
\* share a row. [U, L] gives (U, 0, unshifted), [U, U, B] (U, 1, shifted).
C6_KeyOfMoves ==
    p_res # <<>> =>
        LET ks == p_res[1]
            v == p_value
            key(a, k, sh, p) ==
                [main |-> a, num |-> k, is_shifted |-> sh,
                 start |-> p, end |-> p + (IF sh THEN 3 ELSE 2)]
            found(x) == \E i \in 1 .. Len(ks) : ks[i] = x
        IN  /\ \A p \in ParsePositions(ks, p_start) : \A k \in 0 .. 3 :
                 /\ ( /\ Len(v) - p >= 2
                      /\ v[p + 1] # v[p + 2]
                      /\ AtIndex(v[p + 1], v[p + 2], k) )
                    => found(key(v[p + 1], k, FALSE, p))
                 /\ ( /\ Len(v) - p >= 3
                      /\ v[p + 1] = v[p + 2]
                      /\ v[p + 1] # v[p + 3]
                      /\ AtIndex(v[p + 1], v[p + 3], k) )
                    => found(key(v[p + 1], k, TRUE, p))
            /\ \A i \in 1 .. Len(ks) :
                 LET p == ks[i].start
                     b == v[ks[i].end]
                 IN  /\ p \in ParsePositions(SubSeq(ks, 1, i - 1), p_start)
                     /\ ks[i] = key(v[p + 1], ks[i].num, ks[i].is_shifted, p)
                     /\ ks[i].end <= Len(v)
                     /\ b # v[p + 1]
                     /\ ks[i].is_shifted => v[p + 2] = v[p + 1]
                     /\ AtIndex(v[p + 1], b, ks[i].num)
                     /\ AtIndex(Inverse(v[p + 1]), Inverse(b), ks[i].num)
            /\ (v = <<U, L>> /\ p_start = 0) => ks = <<key(U, 0, FALSE, 0)>>
            /\ (v = <<U, U, B>> /\ p_start = 0) => ks = <<key(U, 1, TRUE, 0)>>

\* [U, U, B'] has been parsed from 0 and gave a shifted key
C6_Witness ==
    /\ p_value = <<U, U, Bp>>
    /\ p_start = 0
    /\ p_res # <<>>
    /\ Len(p_res[1]) = 1
    /\ p_res[1][1].is_shifted

\* C7: the parse is greedy, with no backtracking and no skipping: the keys
\* are found at consecutive positions from the start, each where the moves
\* start a key; at the position after the last key the moves start no key
\* (in one of the listed ways) and no key lies at or after it; two moves
\* start a key exactly when they lie on different axes.
C7_GreedyParseStops ==
    p_res # <<>> =>
        LET ks == p_res[1]
            v == p_value
            stop == IF ks = <<>> THEN p_start ELSE ks[Len(ks)].end
        IN  /\ \A i \in 1 .. Len(ks) :
                 /\ ks[i].start = (IF i = 1 THEN p_start ELSE ks[i - 1].end)
                 /\ StartsKey(v, ks[i].start)
                 /\ ks[i].end <= stop
                 /\ ~ks[i].is_shifted <=>
                       ~SameAxis(v[ks[i].start + 1], v[ks[i].start + 2])
            /\ ~StartsKey(v, stop)
            /\ StartsNoKey(v, stop)
            /\ \A q \in p_start .. Len(v) : StartsKey(v, q) <=> ~StartsNoKey(v, q)
            /\ \A q \in p_start .. Len(v) - 2 :
                 (\E i \in 1 .. Len(ks) : ks[i].start = q /\ ~ks[i].is_shifted)
                    <=> ( /\ q \in ParsePositions(ks, p_start)
                          /\ q < stop
                          /\ ~SameAxis(v[q + 1], v[q + 2]) )

\* the parse of [U, R, U, D] from 0 has found the key of [U, R] and has
\* stopped at [U, D], two moves of one axis
C7_Witness ==
    /\ p_value = <<U, R, U, D>>
    /\ p_start = 0
    /\ p_res # <<>>
    /\ Len(p_res[1]) = 1
    /\ p_res[1][1].end = 2

(***************************************************************************)
(* C1                                                                      *)
(***************************************************************************)
\* C1: once a State message has initialised the counter, the moves that
\* handle_message has fed into the buffer are the moves the cube made
\* after sending that State message and before sending the last handled
\* message that carried the counter: each once, in the order made.
C1_FedMovesArePhysicalMoves ==
    count # <<>> => fed = SubSeq(phys, 1, last_made)

\* the counter has wrapped and 7 moves were fed, the last of them from a
\* window that overlapped the one before
C1_Witness ==
    /\ count # <<>>
    /\ Len(fed) = 7
    /\ count[1] < 7
    /\ event.kind = "Input"
    /\ event.skip \in 1 .. 6
    /\ R \in {fed[i] : i \in 1 .. Len(fed)}
    /\ U \in {fed[i] : i \in 1 .. Len(fed)}

(***************************************************************************)
(* C11, C12: what CuboardBuffer::input returns and leaves                  *)
(***************************************************************************)
\* C11: input(mv) returns true exactly when the list of recognized keys
\* (values and ranges) after the call differs from the list before it, and
\* false exactly when the list is the same.
C11_ReturnsTrueIffKeysChanged ==
    [][InputStep => (last'.key_changed <=> keys' # keys)]_vars

\* C12: feeding R, R, R into an empty buffer (R, R have left [R, R] and no
\* key) leaves exactly [R] as the remaining moves, with no key recognized.
C12_TripleTurnLeavesOne ==
    [][(InputStep /\ last'.mv = R /\ moves = <<R, R>> /\ keys = <<>>
          /\ last.op = "input" /\ last.mv = R) =>
            /\ remains(moves', keys') = <<R>>
            /\ keys' = <<>>
    ]_vars

\* the third R of R, R, R fed into an empty buffer
TripleTurnStep ==
    /\ InputStep
    /\ last'.mv = R
    /\ moves = <<R, R>>
    /\ keys = <<>>
    /\ last.op = "input"
    /\ last.mv = R

\* C12, amended: feeding R, R, R into an empty buffer leaves exactly
\* [R, R, R] as the remaining moves, with no key recognized.
C12_TripleTurnKept ==
    [][TripleTurnStep =>
            /\ remains(moves', keys') = <<R, R, R>>
            /\ keys' = <<>>
    ]_vars

C12_Witness ==
    /\ last.op = "input"
    /\ last.mv = R
    /\ last.range = [start |-> 0, end |-> 2]
    /\ ~last.key_changed
    /\ moves = <<R, R, R>>
    /\ keys = <<>>

(***************************************************************************)
(* SpecMsg: a CuboardInput that is handed decoded messages, whatever their *)
(* counter and slots are (notifications may have been missed).             *)
(***************************************************************************)
\* the buffer holds at most this many moves
MaxHeld == 7

\* the handler is called at most this many times
MaxCalls == 3

\* the counter values the messages carry: either side of the 8-bit wrap
MsgCounts == {250, 253, 3}

\* the slots of the Moves messages; CubeMove::from_repr gives None for a
\* code that is no move. Slot 1 is the Rust slot 0, the most recent move.
UnknownSlots == {{}, {1}, {2, 5}}

UpSlots == {{}, {2, 7}, {1, 3, 4, 6}}

SlotArrays ==
    { [i \in 1 .. 7 |-> IF i \in unk THEN <<>>
                        ELSE IF i \in ups THEN <<U>> ELSE <<R>>] :
        unk \in UnknownSlots, ups \in UpSlots }

Messages ==
    {Msg("State", c, NoSlots) : c \in MsgCounts}
        \cup {Msg("Moves", c, sl) : c \in MsgCounts, sl \in SlotArrays}
        \cup {Msg(k, 0, NoSlots) : k \in {"Gyroscope", "Battery", "Disconnect"}}

\* CuboardInput::handle_message is called with msg; the recognizer answers
\* gesture when the message is a Gyroscope one
HandleMsg(msg, gesture) ==
    /\ calls < MaxCalls
    /\ \E r \in {handle_message(count, moves, keys, msg, gesture)} :
           /\ Len(r.moves) <= MaxHeld
           /\ count' = r.count
           /\ moves' = r.moves
           /\ keys' = r.keys
           /\ event' = r.event
           /\ hm' = HandlerCall(msg, count, r.fed)
    /\ calls' = calls + 1
    /\ UNCHANGED <<last, inp, parsevars, queue, dev_count, dev_moves, unsent,
                   phys, fed, last_made, status, accepted_text, note,
                   decodevars, unitvars>>

NextMsg == \E msg \in Messages : \E gesture \in Gestures : HandleMsg(msg, gesture)

SpecMsg == Init /\ [][NextMsg]_vars

(***************************************************************************)
(* C13, C14                                                                *)
(***************************************************************************)
\* the step is a call of CuboardInput::handle_message with a Moves message
\* while a counter is stored
MovesStep == calls' = calls + 1 /\ hm'.msg.kind = "Moves" /\ hm'.prev # <<>>

\* how many slots are new for counter c when p is stored
NewCount(c, p) ==
    LET d == (c - p) % 256
    IN  IF d < 7 THEN d ELSE 7

\* the moves of the Rust slots n-1 down to 0, the slots with no move left out
SlotsDownFrom(slots, n) ==
    LET F0[k \in 0 .. n] ==
            IF k = 0 THEN <<>> ELSE F0[k - 1] \o slots[n - k + 1]
    IN  F0[n]

\* C13: a Moves message with counter c handled while p is stored has
\* n = min((c - p) mod 256, 7) new slots; the moves of slots n-1 down to 0
\* are fed to the buffer in that order and the stored counter becomes c.
\* For p = 250 and c = 3 all 7 slots are new; for c = p none is and the
\* buffer is unchanged.
C13_NewSlotsReplayed ==
    [][MovesStep =>
        LET c == hm'.msg.count
            p == hm'.prev[1]
            replayed == SlotsDownFrom(hm'.msg.moves, NewCount(c, p))
            r == input_moves(moves, keys, replayed)
        IN  /\ hm'.fed = replayed
            /\ moves' = r.moves
            /\ keys' = r.keys
            /\ count' = <<c>>
            /\ (p = 250 /\ c = 3) =>
                  hm'.fed = SlotsDownFrom(hm'.msg.moves, 7)
            /\ c = p => (hm'.fed = <<>> /\ moves' = moves /\ keys' = keys)
    ]_vars

\* a message with counter 3 was handled while 250 was stored: all 7 slots,
\* moves of two faces, were fed, oldest first
C13_Witness ==
    /\ hm.msg.kind = "Moves"
    /\ hm.prev = <<250>>
    /\ hm.msg.count = 3
    /\ count = <<3>>
    /\ hm.msg.moves[1] = <<R>>
    /\ hm.msg.moves[2] = <<U>>
    /\ Len(hm.fed) = 7
    /\ hm.fed[6] = U
    /\ hm.fed[7] = R

\* C14: the skip value of the returned Input event is the number of new
\* slots whose move code is unknown.
C14_SkipCountsUnknownNewSlots ==
    [][(MovesStep /\ event'.kind = "Input") =>
        LET n == NewCount(hm'.msg.count, hm'.prev[1])
        IN  event'.skip = Cardinality({i \in 1 .. n : hm'.msg.moves[i] = <<>>})
    ]_vars

(***************************************************************************)
(* The message codec of src/src/bluetooth/gancubev2.rs. A frame is a       *)
(* sequence of bytes; bit i of a frame is bit (i % 8), from the top, of    *)
(* its byte i / 8.                                                         *)
(***************************************************************************)
\* a ^ b on bytes
RECURSIVE xor(_, _)
xor(a, b) ==
    IF a = 0 THEN b
    ELSE IF b = 0 THEN a
    ELSE (2 * xor(a \div 2, b \div 2)) + (((a % 2) + (b % 2)) % 2)

\* GanCubeV2Cipher.iv, for a device key of zeros
IV == <<17, 3, 50, 40, 33, 1, 118, 39, 32, 149, 120, 20, 50, 18, 2, 67>>

\* Aes128 on one block. The AES permutation is not computed: a fixed
\* permutation of the 16 bytes of a block stands for it, and its inverse
\* for the decryption.
aes_encrypt_block(block) == [i \in 1 .. 16 |-> block[(i % 16) + 1]]

aes_decrypt_block(block) == [i \in 1 .. 16 |-> block[((i + 14) % 16) + 1]]

\* encrypt_block of GanCubeV2Cipher::encrypt
encrypt_block(block) ==
    aes_encrypt_block([i \in 1 .. 16 |-> xor(block[i], IV[i])])

\* decrypt_block of GanCubeV2Cipher::decrypt
decrypt_block(block) ==
    [i \in 1 .. 16 |-> xor(aes_decrypt_block(block)[i], IV[i])]

\* GanCubeV2Cipher::encrypt: the first 16 bytes, then the last 16
encrypt(value) ==
    CHOOSE out \in
        { SubSeq(first, 1, 4) \o encrypt_block(SubSeq(first, 5, 20)) :
            first \in {encrypt_block(SubSeq(value, 1, 16)) \o SubSeq(value, 17, 20)} } :
        TRUE

\* GanCubeV2Cipher::decrypt: the last 16 bytes, then the first 16 of what
\* that has left
decrypt(value) ==
    CHOOSE out \in
        { decrypt_block(SubSeq(tail, 1, 16)) \o SubSeq(tail, 17, 20) :
            tail \in {SubSeq(value, 1, 4) \o decrypt_block(SubSeq(value, 5, 20))} } :
        TRUE

FIRST_BIT == 128

\* self.data[bit / 8] & (FIRST_BIT >> (bit % 8)) != 0, as 1 or 0
bit_at(data, i) ==
    (data[(i \div 8) + 1] \div (FIRST_BIT \div (2 ^ (i % 8)))) % 2

\* Biter::extract of cnt bits with the cursor at index
RECURSIVE extract(_, _, _)
extract(data, index, cnt) ==
    IF cnt = 0 THEN 0
    ELSE (2 * extract(data, index, cnt - 1)) + bit_at(data, index + cnt - 1)

\* what a 20-byte frame looks like before the cube encrypts it: the fields,
\* each a [width, value], laid out from bit 0, and zeros after them
RECURSIVE field_bits(_)
field_bits(fields) ==
    IF fields = <<>> THEN <<>>
    ELSE LET f == Head(fields)
         IN  [k \in 1 .. f.width |-> (f.value \div (2 ^ (f.width - k))) % 2]
                 \o field_bits(Tail(fields))

Field(width, value) == [width |-> width, value |-> value]

pack(fields) ==
    LET bits == field_bits(fields)
        b(i) == IF i <= Len(bits) THEN bits[i] ELSE 0
    IN  [k \in 1 .. 20 |->
            (128 * b((8 * k) - 7)) + (64 * b((8 * k) - 6))
                + (32 * b((8 * k) - 5)) + (16 * b((8 * k) - 4))
                + (8 * b((8 * k) - 3)) + (4 * b((8 * k) - 2))
                + (2 * b((8 * k) - 1)) + b(8 * k)]

\* MessageParseError: BadMessageLength(len) carries the length alone,
\* UnrecognizedMessage(data) the 20 bytes as decrypted
ParseError(kind, len, data) == [kind |-> kind, len |-> len, data |-> data]

\* what ResponseMessage::decode comes to: Ok(message), with the cube state
\* of a State message; Err(error); or a panic
Decoded(msg, state) ==
    [ok |-> "Ok", msg |-> <<msg>>, state |-> state, err |-> <<>>]

Failed(err) == [ok |-> "Err", msg |-> <<>>, state |-> <<>>, err |-> <<err>>]

Panicked == [ok |-> "Panic", msg |-> <<>>, state |-> <<>>, err |-> <<>>]

\* CubeMove::from_repr
from_repr(code) == IF code < 12 THEN <<code>> ELSE <<>>

\* ResponseMessage::decode_cube_moves (the times are read and not kept)
decode_cube_moves(data) ==
    Decoded(Msg("Moves", extract(data, 4, 8),
                [i \in 1 .. 7 |-> from_repr(extract(data, 12 + (5 * (i - 1)), 5))]),
            <<>>)

\* n successive biter.extract(width) with the cursor at index
RECURSIVE extract_each(_, _, _, _)
extract_each(data, index, width, n) ==
    IF n = 0 THEN <<>>
    ELSE <<extract(data, index, width)>>
             \o extract_each(data, index + width, width, n - 1)

\* (0..n).find(|a| !sent.contains(a)): Some(the least value not sent)
find_absent(sent, n) ==
    LET absent == {a \in 0 .. n - 1 : \A i \in 1 .. Len(sent) : sent[i] # a}
    IN  IF absent = {} THEN <<>>
        ELSE <<CHOOSE a \in absent : \A c \in absent : a <= c>>

\* iter().sum::<u8>() (of at most 11 values below 4: no overflow)
RECURSIVE sum(_)
sum(values) == IF values = <<>> THEN 0 ELSE Head(values) + sum(Tail(values))

\* the corners_position array at the end of decode_cube_state; None when
\* the unwrap() of the find panics
corners_position(data) ==
    LET sent == extract_each(data, 12, 3, 7)
    IN  IF find_absent(sent, 8) = <<>> THEN <<>>
        ELSE <<sent \o find_absent(sent, 8)>>

\* corners_orientation whose 8th entry is the sum of the 7 read, modulo 3
corners_orientation_plain_sum(data) ==
    LET sent == extract_each(data, 33, 2, 7)
    IN  Append(sent, sum(sent) % 3)

\* the corners_orientation array at the end of decode_cube_state
corners_orientation(data) ==
    LET sent == extract_each(data, 33, 2, 7)
    IN  Append(sent, (3 - (sum(sent) % 3)) % 3)

\* the edges_position array at the end of decode_cube_state: the 12th entry
\* is found from the 11 positions read, and the loop that reads the 11
\* orientation bits then writes them over edges_position
edges_position(data) ==
    LET sent == extract_each(data, 47, 4, 11)
    IN  IF find_absent(sent, 12) = <<>> THEN <<>>
        ELSE <<extract_each(data, 91, 1, 11)
                   \o find_absent(sent, 12)>>

\* the edges_orientation array at the end of decode_cube_state: nothing is
\* written to its first 11 entries
edges_orientation(data) ==
    LET sent == [i \in 1 .. 11 |-> 0]
    IN  Append(sent, (2 - (sum(sent) % 2)) % 2)

\* Corner::try_from and Edge::try_from succeed on every pair
pieces_ok(positions, orientations, npos, nori) ==
    \A i \in 1 .. Len(positions) :
        positions[i] < npos /\ orientations[i] < nori

\* CubeState::new
CubeState_new(corners, edges) == [corners |-> corners, edges |-> edges]

Pieces(positions, orientations) ==
    [i \in 1 .. Len(positions) |->
        [position |-> positions[i], orientation |-> orientations[i]]]

\* ResponseMessage::decode_cube_state
decode_cube_state(data) ==
    CHOOSE out \in
        { IF cp = <<>> \/ ep = <<>> THEN Panicked
          ELSE IF ~pieces_ok(cp[1], co, 8, 3) THEN Panicked
          ELSE IF ~pieces_ok(ep[1], eo, 12, 2) THEN Panicked
          ELSE Decoded(Msg("State", extract(data, 4, 8), NoSlots),
                       <<CubeState_new(Pieces(cp[1], co), Pieces(ep[1], eo))>>) :
            cp \in {corners_position(data)},
            co \in {corners_orientation(data)},
            ep \in {edges_position(data)},
            eo \in {edges_orientation(data)} } :
        TRUE

\* ResponseMessage::decode after the length test: decrypted is the frame
\* that cipher.decrypt has left in data
decode_decrypted(decrypted) ==
    CASE extract(decrypted, 0, 4) = 1 ->
            Decoded(Msg("Gyroscope", 0, NoSlots), <<>>)
      [] extract(decrypted, 0, 4) = 2 -> decode_cube_moves(decrypted)
      [] extract(decrypted, 0, 4) = 4 -> decode_cube_state(decrypted)
      [] extract(decrypted, 0, 4) = 9 ->
            Decoded(Msg("Battery", 0, NoSlots), <<>>)
      [] extract(decrypted, 0, 4) = 13 ->
            Decoded(Msg("Disconnect", 0, NoSlots), <<>>)
      [] OTHER -> Failed(ParseError("UnrecognizedMessage", <<>>, <<decrypted>>))

\* ResponseMessage::decode
decode(data) ==
    IF Len(data) # 20
    THEN Failed(ParseError("BadMessageLength", <<Len(data)>>, <<>>))
    ELSE decode_decrypted(decrypt(data))

(***************************************************************************)
(* SpecLoop: the notification loop of GanCubeV2::register_handler with the *)
(* handler of train.rs, CuboardInputPrinter::handle_message.               *)
(***************************************************************************)
\* accepted_text.drain(0..=i) for the last '\n' of accepted_text
drain_to_newline(text) ==
    LET at == {i \in 1 .. Len(text) : text[i] = "\n"}
    IN  IF at = {} THEN text
        ELSE SubSeq(text, (CHOOSE i \in at : \A j \in at : j <= i) + 1, Len(text))

\* CuboardInputPrinter::handle_message after input.handle_message has
\* returned r, an event that is neither Uninit nor Init
printer_refresh(r, text) ==
    LET accepted == IF r.event.kind \in {"Finish", "Input"}
                    THEN text \o r.event.accept ELSE text
        cancelled == r.event.kind = "Cancel"
        ms == IF cancelled THEN <<>> ELSE r.moves
        ks == IF cancelled THEN <<>> ELSE r.keys
    IN  IF contains_newline(buffered_text(ks))
        THEN [count |-> r.count, moves |-> <<>>, keys |-> <<>>,
              event |-> r.event,
              accepted_text |->
                  drain_to_newline(accepted \o input_finish(ms, ks).res)]
        ELSE [count |-> r.count, moves |-> ms, keys |-> ks, event |-> r.event,
              accepted_text |-> drain_to_newline(accepted)]

\* CuboardInputPrinter::handle_message that takes a Disconnect for a
\* request to finish the line
printer_handle_message_finishing(cnt, ms, ks, ev, text, msg, gesture) ==
    IF msg.kind = "Disconnect"
    THEN [count |-> cnt, moves |-> <<>>, keys |-> <<>>, event |-> ev,
          accepted_text |-> text \o buffered_text(ks)]
    ELSE CHOOSE out \in
            { IF r.event.kind \in {"Uninit", "Init"}
              THEN [count |-> r.count, moves |-> ms, keys |-> ks,
                    event |-> r.event, accepted_text |-> text]
              ELSE printer_refresh(r, text) :
                r \in {handle_message(cnt, ms, ks, msg, gesture)} } :
            TRUE

\* CuboardInputPrinter::handle_message: the handler's count, the buffer, the
\* event input.handle_message returned (ev when it was not called) and
\* accepted_text after the call
printer_handle_message(cnt, ms, ks, ev, text, msg, gesture) ==
    IF msg.kind = "Disconnect"
    THEN [count |-> cnt, moves |-> ms, keys |-> ks, event |-> ev,
          accepted_text |-> text]
    ELSE CHOOSE out \in
            { IF r.event.kind \in {"Uninit", "Init"}
              THEN [count |-> r.count, moves |-> ms, keys |-> ks,
                    event |-> r.event, accepted_text |-> text]
              ELSE printer_refresh(r, text) :
                r \in {handle_message(cnt, ms, ks, msg, gesture)} } :
            TRUE

\* the frames the cube sends, before it encrypts them
TagFrame(tag) == pack(<<Field(4, tag)>>)

MovesFrame(cnt, codes) ==
    pack(<<Field(4, 2), Field(8, cnt)>> \o [i \in 1 .. 7 |-> Field(5, codes[i])])

StateFrame(cnt, cp, co, ep, eo) ==
    pack(<<Field(4, 4), Field(8, cnt)>>
            \o [i \in 1 .. 7 |-> Field(3, cp[i])]
            \o [i \in 1 .. 7 |-> Field(2, co[i])]
            \o [i \in 1 .. 11 |-> Field(4, ep[i])]
            \o [i \in 1 .. 11 |-> Field(1, eo[i])])

\* the state of a solved cube, as a State frame carries it
SolvedFrame(cnt) ==
    StateFrame(cnt, [i \in 1 .. 7 |-> i - 1], [i \in 1 .. 7 |-> 0],
               [i \in 1 .. 11 |-> i - 1], [i \in 1 .. 11 |-> 0])

\* a notification: whether its uuid is RESPONSE_UUID, and its payload
Notification(uuid_ok, value) == [uuid_ok |-> uuid_ok, value |-> value]

\* the payloads of the session: a State frame and Moves frames that follow
\* it (code 31 is no move), the other kinds of frame, a frame of an
\* unknown tag, a State frame of corner orientations 3, and payloads that are not
\* 20 bytes long
Payloads ==
    {encrypt(SolvedFrame(250)),
     encrypt(MovesFrame(252, <<U, R, 31, D, D, D, D>>)),
     encrypt(MovesFrame(253, <<F, Rp, Rp, D, D, D, D>>)),
     encrypt(MovesFrame(254, <<B, F, Rp, Rp, D, D, D>>)),
     encrypt(TagFrame(1)), encrypt(TagFrame(9)), encrypt(TagFrame(13)),
     encrypt(TagFrame(3)),
     encrypt(StateFrame(250, [i \in 1 .. 7 |-> i - 1], [i \in 1 .. 7 |-> 3],
                        [i \in 1 .. 11 |-> i - 1], [i \in 1 .. 11 |-> 0])),
     SubSeq(encrypt(TagFrame(13)), 1, 19),
     encrypt(MovesFrame(252, <<U, R, 31, D, D, D, D>>)) \o <<0>>}

Notifications ==
    {Notification(TRUE, v) : v \in Payloads}
        \cup {Notification(FALSE, encrypt(TagFrame(13)))}

\* the cube sends a notification
Arrive(n) ==
    /\ ~ended
    /\ Len(queue) < MaxQueue
    /\ queue' = Append(queue, n)
    /\ UNCHANGED <<bufvars, parsevars, count, event, dev_count, dev_moves,
                   unsent, phys, fed, last_made, handlervars, loopvars,
                   decodevars, unitvars>>

\* one turn of the loop of register_handler on a notification of another
\* characteristic: continue
TakeOther ==
    /\ status = "running"
    /\ queue # <<>>
    /\ ~Head(queue).uuid_ok
    /\ queue' = Tail(queue)
    /\ note' = Note("skipped", <<>>)
    /\ UNCHANGED <<bufvars, parsevars, count, event, dev_count, dev_moves,
                   unsent, phys, fed, last_made, handlervars, status,
                   accepted_text, calls, decodevars, unitvars>>

\* one turn of the loop on a notification that decode refuses: the error is
\* printed and the loop continues
TakeRefused ==
    /\ status = "running"
    /\ queue # <<>>
    /\ Head(queue).uuid_ok
    /\ \E d \in {decode(Head(queue).value)} :
        /\ d.ok = "Err"
        /\ note' = Note("dropped", d.err)
    /\ queue' = Tail(queue)
    /\ UNCHANGED <<bufvars, parsevars, count, event, dev_count, dev_moves,
                   unsent, phys, fed, last_made, handlervars, status,
                   accepted_text, calls, decodevars, unitvars>>

\* one turn of the loop on a notification in which decode panics: the task
\* of the loop ends
TakePanic ==
    /\ status = "running"
    /\ queue # <<>>
    /\ Head(queue).uuid_ok
    /\ decode(Head(queue).value).ok = "Panic"
    /\ queue' = Tail(queue)
    /\ note' = Note("panicked", <<>>)
    /\ status' = "panicked"
    /\ UNCHANGED <<bufvars, parsevars, count, event, dev_count, dev_moves,
                   unsent, phys, fed, last_made, handlervars, accepted_text,
                   calls, decodevars, unitvars>>

\* one turn of the loop on a notification that decodes to a message: the
\* handler is called, and the loop returns after a Disconnect
TakeMessage(gesture) ==
    /\ status = "running"
    /\ queue # <<>>
    /\ Head(queue).uuid_ok
    /\ calls < MaxCalls
    /\ \E d \in {decode(Head(queue).value)} :
        /\ d.ok = "Ok"
        /\ \E r \in {printer_handle_message(count, moves, keys, event,
                                           accepted_text, d.msg[1], gesture)} :
            /\ Len(r.moves) <= MaxHeld
            /\ count' = r.count
            /\ moves' = r.moves
            /\ keys' = r.keys
            /\ event' = r.event
            /\ accepted_text' = r.accepted_text
        /\ status' = IF d.msg[1].kind = "Disconnect" THEN "returned"
                     ELSE "running"
    /\ queue' = Tail(queue)
    /\ calls' = calls + 1
    /\ note' = Note("handled", <<>>)
    /\ UNCHANGED <<last, inp, parsevars, dev_count, dev_moves, unsent, phys,
                   fed, last_made, handlervars, decodevars, unitvars>>

\* the notification stream ends: what it holds is still yielded, then None
StreamEnds ==
    /\ ~ended
    /\ ended' = TRUE
    /\ UNCHANGED <<bufvars, parsevars, devvars, handlervars, loopvars,
                   decodevars, cursorvars, ciphervars, orientvars, ui>>

\* one turn of the loop on a stream that has ended: next() yields None and
\* the loop continues
TakeNone ==
    /\ status = "running"
    /\ ended
    /\ queue = <<>>
    /\ note' = Note("none", <<>>)
    /\ UNCHANGED <<bufvars, parsevars, devvars, handlervars, status,
                   accepted_text, calls, decodevars, unitvars>>

NextLoop ==
    \/ \E n \in Notifications : Arrive(n)
    \/ StreamEnds
    \/ TakeNone
    \/ TakeOther
    \/ TakeRefused
    \/ TakePanic
    \/ \E gesture \in Gestures : TakeMessage(gesture)

SpecLoop == Init /\ [][NextLoop]_vars

(***************************************************************************)
(* C15, C16: what the loop does with a Disconnect and with a payload that  *)
(* decode refuses.                                                         *)
(***************************************************************************)
\* the running loop takes a notification of RESPONSE_UUID whose payload
\* decodes to Disconnect
DisconnectTaken ==
    /\ status = "running"
    /\ queue # <<>>
    /\ Head(queue).uuid_ok
    /\ queue' = Tail(queue)
    /\ decode(Head(queue).value).msg = <<Msg("Disconnect", 0, NoSlots)>>

\* the queue after a step holds what it held, and what has arrived since
QueueGrows ==
    /\ Len(queue') >= Len(queue)
    /\ SubSeq(queue', 1, Len(queue)) = queue

\* C15: a step of the loop that takes a decoded Disconnect calls the handler
\* once, ends the loop and leaves moves, keys, the counter and the accepted
\* text as they were; once the loop has returned no notification is taken,
\* the handler is not called and the session's state is not changed
C15_DisconnectEndsLoop ==
    [][ /\ DisconnectTaken =>
            /\ calls' = calls + 1
            /\ note' = Note("handled", <<>>)
            /\ status' = "returned"
            /\ UNCHANGED <<moves, keys, count, accepted_text>>
        /\ status = "returned" =>
            /\ QueueGrows
            /\ UNCHANGED <<status, calls, note, moves, keys, count,
                           accepted_text>> ]_vars

\* the loop has returned on a Disconnect with moves and a key in the
\* buffer, and a later notification waits
C15_Witness ==
    /\ status = "returned"
    /\ note.did = "handled"
    /\ moves # <<>>
    /\ keys # <<>>
    /\ count # <<>>
    /\ queue # <<>>

\* the running loop takes a notification of RESPONSE_UUID whose payload is
\* not 20 bytes long or whose tag is not known
BadFrameTaken ==
    /\ status = "running"
    /\ queue # <<>>
    /\ Head(queue).uuid_ok
    /\ queue' = Tail(queue)
    /\ \/ Len(Head(queue).value) # 20
       \/ extract(decrypt(Head(queue).value), 0, 4) \notin {1, 2, 4, 9, 13}

\* the bytes of a payload, as received and (20 bytes) as decrypted
OffendingBytes(value) ==
    {value} \cup (IF Len(value) = 20 THEN {decrypt(value)} ELSE {})

\* C16: a step of the loop that takes a payload of another length than 20,
\* or of an unknown tag, gets an error of decode that carries the bytes of
\* the payload (as received or as decrypted), does not call the handler and
\* leaves the loop running
C16_BadFrameDropped ==
    [][ BadFrameTaken =>
            /\ note'.did = "dropped"
            /\ note'.err # <<>>
            /\ \E bytes \in OffendingBytes(Head(queue).value) :
                    note'.err[1].data = <<bytes>>
            /\ calls' = calls
            /\ status' = "running"
            /\ UNCHANGED <<moves, keys, count, accepted_text>> ]_vars

(***************************************************************************)
(* SpecDecode: ResponseMessage::decode applied to one payload, d_data;     *)
(* d_res is None before the call and Some(what the call came to) after.    *)
(***************************************************************************)
\* the 7 corner positions a State frame carries: the first or the last 7
\* positions of a solved cube, with one of three slots set to any value
CornerPositionsSent ==
    {[b EXCEPT ![k] = v] :
        b \in {[i \in 1 .. 7 |-> i - 1], [i \in 1 .. 7 |-> 8 - i]},
        k \in {1, 4, 7}, v \in 0 .. 7}

\* the 7 corner orientations a State frame carries; 3 is no orientation
CornerOrientationsSent ==
    {[i \in 1 .. 7 |-> 0], <<1, 2, 0, 1, 2, 0, 1>>, [i \in 1 .. 7 |-> 2],
     <<0, 0, 0, 3, 0, 0, 0>>}

\* the 11 edge positions a State frame carries, some of them repeated or
\* not below 12
EdgePositionsSent ==
    {[i \in 1 .. 11 |-> i - 1], [i \in 1 .. 11 |-> 12 - i],
     [[i \in 1 .. 11 |-> i - 1] EXCEPT ![3] = 11],
     [[i \in 1 .. 11 |-> i - 1] EXCEPT ![3] = 0],
     [[i \in 1 .. 11 |-> i - 1] EXCEPT ![11] = 15]}

\* the 11 edge orientations a State frame carries
EdgeOrientationsSent ==
    {[i \in 1 .. 11 |-> 0], [i \in 1 .. 11 |-> 1], [i \in 1 .. 11 |-> i % 2]}

\* the payloads decode is given: State frames, the payloads of the loop,
\* and slices of other lengths
DecodeInputs ==
    {encrypt(StateFrame(7, cp, co, ep, eo)) :
        cp \in CornerPositionsSent, co \in CornerOrientationsSent,
        ep \in EdgePositionsSent, eo \in EdgeOrientationsSent}
        \cup Payloads
        \cup {<<>>, <<4>>, encrypt(SolvedFrame(7)) \o encrypt(SolvedFrame(7))}

InitDecode ==
    /\ moves = <<>>
    /\ keys = <<>>
    /\ last = Call("new", U, NoRange, 0, FALSE, <<>>)
    /\ inp = NoInputCall
    /\ ParseIdle
    /\ DevIdle
    /\ LoopIdle
    /\ UnitIdle
    /\ d_data \in DecodeInputs
    /\ d_res = <<>>

\* ResponseMessage::decode
Decode ==
    /\ d_res = <<>>
    /\ d_res' = <<decode(d_data)>>
    /\ UNCHANGED <<bufvars, parsevars, devvars, handlervars, loopvars, d_data,
                   unitvars>>

NextDecode == Decode

SpecDecode == InitDecode /\ [][NextDecode]_vars

(***************************************************************************)
(* C17 .. C20: what decode makes of a payload.                             *)
(***************************************************************************)
\* d_data is a frame of 20 bytes whose tag, once decrypted, is that of a
\* State message
IsStateFrame ==
    /\ Len(d_data) = 20
    /\ extract(decrypt(d_data), 0, 4) = 4

\* the n values of `width` bits that the frame d_data carries from bit
\* `first` on
Sent(first, width, n) ==
    extract_each(decrypt(d_data), first, width, n)

Distinct(values) ==
    \A i, j \in 1 .. Len(values) : values[i] = values[j] => i = j

IsPermutation(values, n) ==
    /\ Len(values) = n
    /\ \A a \in 0 .. n - 1 : \E i \in 1 .. n : values[i] = a

PositionsOf(pieces) == [i \in 1 .. Len(pieces) |-> pieces[i].position]

OrientationsOf(pieces) == [i \in 1 .. Len(pieces) |-> pieces[i].orientation]

\* C17: decode never panics: whatever the payload, it comes to a decoded
\* message or to a typed error
C17_DecodeNeverPanics ==
    d_res # <<>> => d_res[1].ok \in {"Ok", "Err"}

\* the 7 corner positions sent are distinct and the 7 corner orientations
\* sent are below 3
CornersSentValid ==
    /\ IsStateFrame
    /\ Distinct(Sent(12, 3, 7))
    /\ \A i \in 1 .. 7 : Sent(33, 2, 7)[i] < 3

\* C18: a State frame of 7 distinct corner positions and 7 corner
\* orientations below 3 decodes to a state of 8 corners, the first 7 of the
\* positions and orientations sent, the 8 positions a permutation of [0,8)
\* and the 8 orientations of sum 0 modulo 3
C18_CornersReconstructed ==
    (d_res # <<>> /\ CornersSentValid) =>
        /\ d_res[1].ok = "Ok"
        /\ d_res[1].msg[1].kind = "State"
        /\ LET corners == d_res[1].state[1].corners
           IN  /\ Len(corners) = 8
               /\ SubSeq(PositionsOf(corners), 1, 7) = Sent(12, 3, 7)
               /\ SubSeq(OrientationsOf(corners), 1, 7) = Sent(33, 2, 7)
               /\ IsPermutation(PositionsOf(corners), 8)
               /\ \A i \in 1 .. 8 : corners[i].orientation \in 0 .. 2
               /\ sum(OrientationsOf(corners)) % 3 = 0

\* a frame of distinct corner positions, the 8th of them not the last of a
\* solved cube, and of orientations whose sum is not 0 modulo 3 has been
\* decoded
C18_Witness ==
    /\ d_res # <<>>
    /\ CornersSentValid
    /\ d_res[1].ok = "Ok"
    /\ d_res[1].state[1].corners[8].position # 7
    /\ d_res[1].state[1].corners[8].orientation # 0
    /\ Sent(12, 3, 7) # [i \in 1 .. 7 |-> i - 1]

\* C19: a State frame of 11 distinct edge positions below 12 (and of corners
\* that decode) decodes to a state of 12 edges, the first 11 of the
\* positions and orientations sent, the 12 positions a permutation of
\* [0,12) and the 12 orientations of sum 0 modulo 2
C19_EdgesReconstructed ==
    (/\ d_res # <<>>
     /\ CornersSentValid
     /\ Distinct(Sent(47, 4, 11))
     /\ \A i \in 1 .. 11 : Sent(47, 4, 11)[i] < 12) =>
        /\ d_res[1].ok = "Ok"
        /\ LET edges == d_res[1].state[1].edges
           IN  /\ Len(edges) = 12
               /\ SubSeq(PositionsOf(edges), 1, 11) = Sent(47, 4, 11)
               /\ SubSeq(OrientationsOf(edges), 1, 11) = Sent(91, 1, 11)
               /\ IsPermutation(PositionsOf(edges), 12)
               /\ sum(OrientationsOf(edges)) % 2 = 0

\* C20: a State frame whose 7 corner positions are not distinct never
\* decodes to a state whose corner positions are not a permutation of [0,8)
C20_RepeatedCornersRejected ==
    (d_res # <<>> /\ IsStateFrame /\ ~Distinct(Sent(12, 3, 7))) =>
        ~(/\ d_res[1].ok = "Ok"
          /\ ~IsPermutation(PositionsOf(d_res[1].state[1].corners), 8))

(***************************************************************************)
(* C25: CuboardInput::handle_message before the first State message.       *)
(***************************************************************************)
\* the step is a call of CuboardInput::handle_message while no counter is
\* stored
UninitStep == calls' = calls + 1 /\ hm'.prev = <<>> /\ count = <<>>

\* C25: while no counter is stored, handle_message answers a State message
\* with Init and stores its count, answers every other message with Uninit
\* and leaves the counter unset; in both cases the buffer is untouched and
\* no move is fed
C25_IgnoredUntilState ==
    [][UninitStep =>
        /\ UNCHANGED <<moves, keys>>
        /\ hm'.fed = <<>>
        /\ IF hm'.msg.kind = "State"
           THEN event' = Event("Init", <<>>, 0) /\ count' = <<hm'.msg.count>>
           ELSE event' = Event("Uninit", <<>>, 0) /\ count' = <<>>
    ]_vars

\* a Moves message whose slots hold moves was answered with Uninit, the
\* counter still unset and the buffer empty
C25_Witness ==
    /\ calls > 0
    /\ hm.msg.kind = "Moves"
    /\ hm.msg.moves[1] # <<>>
    /\ hm.prev = <<>>
    /\ event.kind = "Uninit"
    /\ count = <<>>
    /\ moves = <<>>

(***************************************************************************)
(* C27, C28: what holds of the buffer in every state.                      *)
(***************************************************************************)
\* C27: the key list the buffer maintains is the parse of its moves from
\* index 0, values and ranges alike
C27_KeysAreParseOfMoves == keys = parse(moves, 0)

\* an input has just dropped the key its collapsed range reached into and
\* parsed a key anew over the moves it changed, leaving a move pending
C27_Witness ==
    /\ last.op = "input"
    /\ last.broken = 1
    /\ Len(keys) = 1
    /\ keys[1].end > last.range.start
    /\ keys[1].end < Len(moves)

\* positions i..j of ms are a maximal run of consecutive moves of one axis
AxisRun(ms, i, j) ==
    /\ \A k \in i .. j : SameAxis(ms[k], ms[i])
    /\ i = 1 \/ ~SameAxis(ms[i - 1], ms[i])
    /\ j = Len(ms) \/ ~SameAxis(ms[j + 1], ms[i])

\* C28: inside a maximal run of consecutive same-axis moves of the buffer,
\* the moves of one face all have one direction (so no move sits with its
\* inverse) and are contiguous
C28_MovesCanonical ==
    \A i \in 1 .. Len(moves) : \A j \in i .. Len(moves) :
        AxisRun(moves, i, j) =>
            \A a \in i .. j : \A b \in a .. j :
                SameFace(moves[a], moves[b]) =>
                    /\ moves[a] = moves[b]
                    /\ \A k \in a .. b : moves[k] = moves[a]

\* an input has just taken a move out of a run that a move of the opposite
\* face followed, and the buffer holds moves of both faces of that axis
C28_Witness ==
    /\ last.op = "input"
    /\ last.range.start < last.range.end
    /\ Len(moves) >= 3
    /\ moves[Len(moves)] = rev(last.mv)
    /\ SameAxis(moves[Len(moves) - 1], last.mv)
    /\ ~SameFace(moves[Len(moves) - 1], last.mv)

(***************************************************************************)
(* The bit cursor: Biter over a frame received, BiterMut over a frame to     *)
(* send.                                                                   *)
(***************************************************************************)

\* the bytes of a frame, in either direction
FrameBytes == 20

\* n calls of width w
Rep(w, n) == [i \in 1 .. n |-> w]

\* the eight users of a cursor: the five branches of ResponseMessage::decode
\* and the three requests of RequestMessage::encode
DecodeBranches == {"Gyroscope", "CubeMoves", "CubeState", "BatteryState", "Disconnect"}

Requests == {"RequestCubeState", "RequestBatteryState", "ResetCubeState"}

\* decode_widths, without the 10 unknown bits of the State branch
decode_widths_no_unknown(branch) ==
    <<4>> \o
    CASE branch = "Gyroscope" ->
            Rep(16, 4) \o Rep(4, 3) \o Rep(16, 4) \o Rep(4, 3) \o <<4>>
      [] branch = "CubeMoves" ->
            <<8>> \o Rep(5, 7) \o Rep(16, 7) \o <<1>>
      [] branch = "CubeState" ->
            <<8>> \o Rep(3, 7) \o Rep(2, 7) \o Rep(4, 11) \o Rep(1, 11) \o Rep(8, 6)
      [] branch = "BatteryState" ->
            <<4, 8>> \o Rep(8, 18)
      [] branch = "Disconnect" ->
            <<4>> \o Rep(8, 19)

\* the counts of the extract calls of a branch, in the order of the calls,
\* behind that of the type tag
decode_widths(branch) ==
    <<4>> \o
    CASE branch = "Gyroscope" ->
            Rep(16, 4) \o Rep(4, 3) \o Rep(16, 4) \o Rep(4, 3) \o <<4>>
      [] branch = "CubeMoves" ->
            <<8>> \o Rep(5, 7) \o Rep(16, 7) \o <<1>>
      [] branch = "CubeState" ->
            <<8>> \o Rep(3, 7) \o Rep(2, 7) \o Rep(4, 11) \o Rep(1, 11) \o <<10>>
                  \o Rep(8, 6)
      [] branch = "BatteryState" ->
            <<4, 8>> \o Rep(8, 18)
      [] branch = "Disconnect" ->
            <<4>> \o Rep(8, 19)

\* the counts of the assign calls of a request, in the order of the calls
encode_widths(request) ==
    CASE request = "RequestCubeState" -> <<8>>
      [] request = "RequestBatteryState" -> <<8>>
      [] request = "ResetCubeState" ->
            <<8>> \o Rep(3, 8) \o Rep(2, 8) \o Rep(4, 12) \o Rep(1, 12)

\* the highest byte that a call of cnt bits at index addresses: data[bit / 8]
\* for each bit of index .. index + cnt - 1; none when cnt = 0
top_byte(top, index, cnt) ==
    IF cnt = 0 \/ (index + cnt - 1) \div 8 < top
    THEN top
    ELSE (index + cnt - 1) \div 8

\* a new buffer, no device, no handler or loop at work, nothing decoded
RestIdle ==
    /\ moves = <<>>
    /\ keys = <<>>
    /\ last = Call("new", U, NoRange, 0, FALSE, <<>>)
    /\ inp = NoInputCall
    /\ ParseIdle
    /\ DevIdle
    /\ LoopIdle
    /\ d_data = <<>>
    /\ d_res = <<>>

InitCursor ==
    /\ RestIdle
    /\ ended = FALSE
    /\ CipherIdle
    /\ OrientIdle
    /\ ui = <<>>
    /\ b_kind \in DecodeBranches \cup Requests
    /\ b_todo = IF b_kind \in DecodeBranches
                THEN decode_widths(b_kind)
                ELSE encode_widths(b_kind)
    /\ b_index = 0
    /\ b_top = -1

\* Biter::extract(count): reads the bits index .. index + count - 1 and
\* advances the index by count
CursorExtract ==
    /\ b_kind \in DecodeBranches
    /\ b_todo # <<>>
    /\ b_top' = top_byte(b_top, b_index, Head(b_todo))
    /\ b_index' = b_index + Head(b_todo)
    /\ b_todo' = Tail(b_todo)
    /\ UNCHANGED <<bufvars, parsevars, devvars, handlervars, loopvars,
                   decodevars, ended, b_kind, ciphervars, orientvars, ui>>

\* BiterMut::assign(count, value): writes the bits index .. index + count - 1
\* and advances the index by count
CursorAssign ==
    /\ b_kind \in Requests
    /\ b_todo # <<>>
    /\ b_top' = top_byte(b_top, b_index, Head(b_todo))
    /\ b_index' = b_index + Head(b_todo)
    /\ b_todo' = Tail(b_todo)
    /\ UNCHANGED <<bufvars, parsevars, devvars, handlervars, loopvars,
                   decodevars, ended, b_kind, ciphervars, orientvars, ui>>

NextCursor == CursorExtract \/ CursorAssign

SpecCursor == InitCursor /\ [][NextCursor]_vars

\* C21: no extract or assign addresses a byte outside the frame; a decode
\* branch that has made all its calls has read exactly the 8 * FrameBytes
\* bits of the frame, and encode has assigned no more than that.
C21_CursorStaysInFrame ==
    /\ b_top < FrameBytes
    /\ b_index <= 8 * FrameBytes
    /\ b_kind \in DecodeBranches /\ b_todo = <<>> => b_index = 8 * FrameBytes

\* the State branch has made its last call, which read the last byte
C21_Witness ==
    /\ b_kind = "CubeState"
    /\ b_todo = <<>>
    /\ b_index = 8 * FrameBytes
    /\ b_top = FrameBytes - 1

(***************************************************************************)
(* GanCubeV2Cipher: the secrets of a device and the two passes over a      *)
(* frame.                                                                  *)
(***************************************************************************)

\* key of make_cipher, before the device key is added; IV is its iv
BaseKey == <<1, 2, 66, 40, 49, 145, 22, 7, 32, 5, 24, 84, 66, 17, 18, 83>>

\* add_device_key, with the sum taken in 8 bits
add_device_key_wrapping(secret, device_key) ==
    [i \in 1 .. 16 |->
        IF i <= Len(device_key)
        THEN ((secret[i] + device_key[i]) % 256) % 255
        ELSE secret[i]]

\* add_device_key of make_cipher: the zip ends with the device key, and the
\* sum is taken in 16 bits
add_device_key(secret, device_key) ==
    [i \in 1 .. 16 |->
        IF i <= Len(device_key)
        THEN ((secret[i] + device_key[i]) % 65536) % 255
        ELSE secret[i]]

\* Result<GanCubeV2Cipher, DeviceError>
CipherOk(key, iv) == [ok |-> TRUE, err |-> "", key |-> key, iv |-> iv]

CipherErr(err) == [ok |-> FALSE, err |-> err, key |-> <<>>, iv |-> <<>>]

\* GanCubeV2Cipher::make_cipher, given manufacturer_data.get(&1)
make_cipher(manufacturer_data) ==
    IF manufacturer_data = <<>>
    THEN CipherErr("NoDeviceIdentifier")
    ELSE IF Len(manufacturer_data[1]) # 9
    THEN CipherErr("InvalidDeviceIdentifier")
    ELSE CHOOSE c \in
            { CipherOk(add_device_key(BaseKey, device_key),
                       add_device_key(IV, device_key)) :
                device_key \in {SubSeq(manufacturer_data[1], 4, 9)} } :
            TRUE

\* Aes128 of a key on one block. The AES permutation is not computed: a
\* family of invertible maps stands for it, one for each key (the bytes of
\* the block rotated by a count taken from the key, each then masked by a
\* byte of the key), with the inverse map for the decryption.
aes_shift(key) == 1 + ((key[1] + key[6]) % 15)

aes_encrypt_block_keyed(key, block) ==
    [i \in 1 .. 16 |->
        xor(block[((i - 1 + aes_shift(key)) % 16) + 1], key[i])]

aes_decrypt_block_keyed(key, block) ==
    [j \in 1 .. 16 |->
        xor(block[((j - 1 + 16 - aes_shift(key)) % 16) + 1],
            key[((j - 1 + 16 - aes_shift(key)) % 16) + 1])]

\* encrypt_block of GanCubeV2Cipher::encrypt, for any cipher
encrypt_block_with(cipher, block) ==
    aes_encrypt_block_keyed(cipher.key, [i \in 1 .. 16 |-> xor(block[i], cipher.iv[i])])

\* decrypt_block of GanCubeV2Cipher::decrypt, for any cipher
decrypt_block_with(cipher, block) ==
    CHOOSE out \in
        { [i \in 1 .. 16 |-> xor(plain[i], cipher.iv[i])] :
            plain \in {aes_decrypt_block_keyed(cipher.key, block)} } :
        TRUE

\* GanCubeV2Cipher::encrypt, for any cipher: value[..16], then value[4..]
encrypt_with(cipher, value) ==
    CHOOSE out \in
        { SubSeq(first, 1, 4) \o encrypt_block_with(cipher, SubSeq(first, 5, 20)) :
            first \in {encrypt_block_with(cipher, SubSeq(value, 1, 16))
                          \o SubSeq(value, 17, 20)} } :
        TRUE

\* decrypt_with, with the two passes in the order of encrypt
decrypt_with_same_order(cipher, value) ==
    CHOOSE out \in
        { SubSeq(head, 1, 4) \o decrypt_block_with(cipher, SubSeq(head, 5, 20)) :
            head \in {decrypt_block_with(cipher, SubSeq(value, 1, 16))
                          \o SubSeq(value, 17, 20)} } :
        TRUE

\* GanCubeV2Cipher::decrypt, for any cipher: value[4..], then value[..16]
decrypt_with(cipher, value) ==
    CHOOSE out \in
        { decrypt_block_with(cipher, SubSeq(tail, 1, 16)) \o SubSeq(tail, 17, 20) :
            tail \in {SubSeq(value, 1, 4)
                          \o decrypt_block_with(cipher, SubSeq(value, 5, 20))} } :
        TRUE

\* what a device may advertise under company 1: nothing, an identifier of 9
\* bytes, or data of another length
DeviceIds ==
    {<<0, 0, 0, 0, 0, 0, 0, 0, 0>>,
     <<1, 2, 3, 254, 253, 58, 200, 110, 255>>,
     <<171, 18, 52, 238, 252, 189, 215, 206, 110>>,
     <<9, 9, 9, 255, 255, 255, 255, 255, 255>>,
     <<0, 0, 0, 1, 1, 1, 1, 1, 1>>}

ManufacturerData ==
    {<<>>, <<SubSeq(<<1, 2, 3, 254, 253, 58, 200, 110, 255>>, 1, 8)>>,
     <<(<<1, 2, 3, 254, 253, 58, 200, 110, 255>> \o <<7>>)>>}
        \cup {<<id>> : id \in DeviceIds}

\* RequestMessage::encode before the encryption: the opcode in 8 bits and,
\* for a reset, the cube state
RequestFrame(opcode) == pack(<<Field(8, opcode)>>)

ResetFrame(cp, co, ep, eo) ==
    pack(<<Field(8, 10)>>
            \o [i \in 1 .. 8 |-> Field(3, cp[i])]
            \o [i \in 1 .. 8 |-> Field(2, co[i])]
            \o [i \in 1 .. 12 |-> Field(4, ep[i])]
            \o [i \in 1 .. 12 |-> Field(1, eo[i])])

\* the frames given to encrypt: the three requests, and frames as the cube
\* builds them
PlainFrames ==
    {RequestFrame(4), RequestFrame(9),
     ResetFrame([i \in 1 .. 8 |-> i - 1], [i \in 1 .. 8 |-> 0],
                [i \in 1 .. 12 |-> i - 1], [i \in 1 .. 12 |-> 0]),
     ResetFrame([i \in 1 .. 8 |-> 8 - i], [i \in 1 .. 8 |-> i % 3],
                [i \in 1 .. 12 |-> 12 - i], [i \in 1 .. 12 |-> i % 2]),
     SolvedFrame(250),
     MovesFrame(252, <<U, R, 31, D, D, D, D>>),
     [i \in 1 .. 20 |-> 255],
     [i \in 1 .. 20 |-> (37 * i) % 256]}

InitCipher ==
    /\ RestIdle
    /\ ended = FALSE
    /\ CursorIdle
    /\ OrientIdle
    /\ ui = <<>>
    /\ k_id \in ManufacturerData
    /\ k_frame \in PlainFrames
    /\ k_cipher = <<>>
    /\ k_out = <<>>

\* GanCubeV2Cipher::make_cipher
MakeCipher ==
    /\ k_cipher = <<>>
    /\ k_cipher' = <<make_cipher(k_id)>>
    /\ UNCHANGED <<bufvars, parsevars, devvars, handlervars, loopvars,
                   decodevars, ended, cursorvars, k_id, k_frame, k_out,
                   orientvars, ui>>

\* encrypt on the frame, then decrypt on what encrypt made of it
RoundTrip ==
    /\ k_cipher # <<>>
    /\ k_cipher[1].ok
    /\ k_out = <<>>
    /\ \E enc \in {encrypt_with(k_cipher[1], k_frame)} :
            k_out' = <<[enc |-> enc, dec |-> decrypt_with(k_cipher[1], enc)]>>
    /\ UNCHANGED <<bufvars, parsevars, devvars, handlervars, loopvars,
                   decodevars, ended, cursorvars, k_id, k_frame, k_cipher,
                   orientvars, ui>>

NextCipher == MakeCipher \/ RoundTrip

SpecCipher == InitCipher /\ [][NextCipher]_vars

\* C22: decrypt gives back the frame that encrypt was given, for every frame
\* and every cipher that make_cipher returns.
C22_DecryptUndoesEncrypt ==
    k_out # <<>> => k_out[1].dec = k_frame

\* a frame went through a cipher whose secrets are not the base ones, and
\* encrypt changed bytes of the overlap and of both ends
C22_Witness ==
    /\ k_out # <<>>
    /\ k_cipher[1].iv # IV
    /\ k_out[1].dec = k_frame
    /\ k_out[1].enc[2] # k_frame[2]
    /\ k_out[1].enc[10] # k_frame[10]
    /\ k_out[1].enc[19] # k_frame[19]

\* C23: for an identifier of 9 bytes, byte i < 6 of the key and of the iv is
\* the base byte plus byte 3 + i of the identifier, modulo 255 and without
\* overflow in 8 bits, so below 255; the bytes from 6 on are the base ones.
\* Data of another length, or none, gives no cipher.
C23_SecretsDerived ==
    k_cipher # <<>> =>
        IF k_id # <<>> /\ Len(k_id[1]) = 9
        THEN /\ k_cipher[1].ok
             /\ Len(k_cipher[1].key) = 16
             /\ Len(k_cipher[1].iv) = 16
             /\ \A i \in 1 .. 6 :
                    /\ k_cipher[1].key[i] = (BaseKey[i] + k_id[1][3 + i]) % 255
                    /\ k_cipher[1].iv[i] = (IV[i] + k_id[1][3 + i]) % 255
                    /\ k_cipher[1].key[i] \in 0 .. 254
                    /\ k_cipher[1].iv[i] \in 0 .. 254
             /\ \A i \in 7 .. 16 :
                    /\ k_cipher[1].key[i] = BaseKey[i]
                    /\ k_cipher[1].iv[i] = IV[i]
        ELSE ~k_cipher[1].ok

\* a cipher made from an identifier for which a sum passes 255, and one for
\* which a sum is 255
C23_Witness ==
    /\ k_cipher # <<>>
    /\ k_cipher[1].ok
    /\ BaseKey[6] + k_id[1][9] > 255
    /\ BaseKey[1] + k_id[1][4] = 255
    /\ k_cipher[1].key[1] = 0

(***************************************************************************)
(* CubeOrientation of src/src/cube.rs. An orientation is its discriminant, *)
(* 0 .. 47 in the order of the enum; its name is six face letters.         *)
(***************************************************************************)

\* the names of the variants, in the order of the enum
ORIENTATION_NAMES ==
    <<<<"U", "R", "F", "D", "L", "B">>, <<"U", "F", "L", "D", "B", "R">>,
      <<"U", "L", "B", "D", "R", "F">>, <<"U", "B", "R", "D", "F", "L">>,
      <<"D", "F", "R", "U", "B", "L">>, <<"D", "L", "F", "U", "R", "B">>,
      <<"D", "B", "L", "U", "F", "R">>, <<"D", "R", "B", "U", "L", "F">>,
      <<"F", "U", "R", "B", "D", "L">>, <<"L", "U", "F", "R", "D", "B">>,
      <<"B", "U", "L", "F", "D", "R">>, <<"R", "U", "B", "L", "D", "F">>,
      <<"R", "D", "F", "L", "U", "B">>, <<"F", "D", "L", "B", "U", "R">>,
      <<"L", "D", "B", "R", "U", "F">>, <<"B", "D", "R", "F", "U", "L">>,
      <<"R", "F", "U", "L", "B", "D">>, <<"F", "L", "U", "B", "R", "D">>,
      <<"L", "B", "U", "R", "F", "D">>, <<"B", "R", "U", "F", "L", "D">>,
      <<"F", "R", "D", "B", "L", "U">>, <<"L", "F", "D", "R", "B", "U">>,
      <<"B", "L", "D", "F", "R", "U">>, <<"R", "B", "D", "L", "F", "U">>,
      <<"F", "R", "U", "B", "L", "D">>, <<"L", "F", "U", "R", "B", "D">>,
      <<"B", "L", "U", "F", "R", "D">>, <<"R", "B", "U", "L", "F", "D">>,
      <<"R", "F", "D", "L", "B", "U">>, <<"F", "L", "D", "B", "R", "U">>,
      <<"L", "B", "D", "R", "F", "U">>, <<"B", "R", "D", "F", "L", "U">>,
      <<"U", "F", "R", "D", "B", "L">>, <<"U", "L", "F", "D", "R", "B">>,
      <<"U", "B", "L", "D", "F", "R">>, <<"U", "R", "B", "D", "L", "F">>,
      <<"D", "R", "F", "U", "L", "B">>, <<"D", "F", "L", "U", "B", "R">>,
      <<"D", "L", "B", "U", "R", "F">>, <<"D", "B", "R", "U", "F", "L">>,
      <<"R", "U", "F", "L", "D", "B">>, <<"F", "U", "L", "B", "D", "R">>,
      <<"L", "U", "B", "R", "D", "F">>, <<"B", "U", "R", "F", "D", "L">>,
      <<"F", "D", "R", "B", "U", "L">>, <<"L", "D", "F", "R", "U", "B">>,
      <<"B", "D", "L", "F", "U", "R">>, <<"R", "D", "B", "L", "U", "F">>>>

CubeOrientations == 0 .. 47

\* CubeOrientation::default()
URFDLB == 0

\* CubeOrientation::chars
chars(o) == ORIENTATION_NAMES[o + 1]

\* CubeOrientation::perm: the index in URFDLB of each letter of the name
perm_of(name, letters) ==
    <<position(letters, name[1])[1], position(letters, name[2])[1],
      position(letters, name[3])[1], position(letters, name[4])[1],
      position(letters, name[5])[1], position(letters, name[6])[1]>>

perm(o) == perm_of(chars(o), chars(URFDLB))

\* CubeOrientation::try_from_perm: Some(the variant of that name), or None
try_from_perm(p) ==
    position(ORIENTATION_NAMES,
             <<chars(URFDLB)[p[1] + 1], chars(URFDLB)[p[2] + 1],
               chars(URFDLB)[p[3] + 1], chars(URFDLB)[p[4] + 1],
               chars(URFDLB)[p[5] + 1], chars(URFDLB)[p[6] + 1]>>)

\* rhs.map(|i| lhs[i])
added_perm(lhs, rhs) ==
    <<lhs[rhs[1] + 1], lhs[rhs[2] + 1], lhs[rhs[3] + 1],
      lhs[rhs[4] + 1], lhs[rhs[5] + 1], lhs[rhs[6] + 1]>>

\* Add for CubeOrientation, before the unwrap: None is the panic of unwrap
add(a, rhs) == try_from_perm(added_perm(perm(a), perm(rhs)))

\* default.map(|i| perm.iter().position(|&j| j == i).unwrap())
neg_perm(p, default) ==
    <<position(p, default[1])[1], position(p, default[2])[1],
      position(p, default[3])[1], position(p, default[4])[1],
      position(p, default[5])[1], position(p, default[6])[1]>>

\* neg, returning the orientation itself
neg_same(a) == <<a>>

\* Neg for CubeOrientation, before the unwrap
neg(a) == try_from_perm(neg_perm(perm(a), perm(URFDLB)))

\* x + y for the results of earlier operations: a panic stays a panic
add_opt(x, y) ==
    IF x = <<>> \/ y = <<>> THEN <<>> ELSE add(x[1], y[1])

\* CubeOrientation::is_mirror
is_mirror(o) == o >= 24

InitOrient ==
    /\ RestIdle
    /\ ended = FALSE
    /\ CursorIdle
    /\ CipherIdle
    /\ ui = <<>>
    /\ o_a \in CubeOrientations
    /\ o_b \in CubeOrientations
    /\ o_c \in CubeOrientations
    /\ o_res = <<>>

\* the sums and the negation that the group laws speak of
Compose ==
    /\ o_res = <<>>
    /\ \E ab \in {add(o_a, o_b)}, bc \in {add(o_b, o_c)}, na \in {neg(o_a)} :
            o_res' = <<[ab |-> ab,
                        ab_c |-> add_opt(ab, <<o_c>>),
                        a_bc |-> add_opt(<<o_a>>, bc),
                        a_i |-> add(o_a, URFDLB),
                        i_a |-> add(URFDLB, o_a),
                        neg_a |-> na,
                        a_neg |-> add_opt(<<o_a>>, na),
                        neg_a_a |-> add_opt(na, <<o_a>>)]>>
    /\ UNCHANGED <<bufvars, parsevars, devvars, handlervars, loopvars,
                   decodevars, ended, cursorvars, ciphervars, o_a, o_b, o_c, ui>>

NextOrient == Compose

SpecOrient == InitOrient /\ [][NextOrient]_vars

\* C24: the orientations are a group under Add: a sum and a negation are
\* orientations again (the unwrap in Add and Neg never panics), Add is
\* associative, URFDLB is an identity on both sides, and the negation of a
\* is its inverse on both sides.
C24_OrientationsFormGroup ==
    o_res # <<>> =>
        /\ \A f \in DOMAIN o_res[1] :
                o_res[1][f] # <<>> /\ o_res[1][f][1] \in CubeOrientations
        /\ o_res[1].ab_c = o_res[1].a_bc
        /\ o_res[1].a_i = <<o_a>>
        /\ o_res[1].i_a = <<o_a>>
        /\ o_res[1].a_neg = <<URFDLB>>
        /\ o_res[1].neg_a_a = <<URFDLB>>

\* a mirror orientation that is not its own inverse, added to two rotations
\* that do not commute
C24_Witness ==
    /\ o_res # <<>>
    /\ is_mirror(o_a)
    /\ o_res[1].neg_a # <<o_a>>
    /\ ~is_mirror(o_b) /\ ~is_mirror(o_c)
    /\ add(o_b, o_c) # add(o_c, o_b)
    /\ o_res[1].ab_c = o_res[1].a_bc
    /\ o_res[1].ab_c # <<>>

(***************************************************************************)
(* SpecMain: the handlers of src/src/main.rs (CuboardInputPrinter and      *)
(* CuboardInputTrainer, which treat a message alike up to the assertion).  *)
(* They feed the new moves to the buffer themselves and look at the text   *)
(* once, after the last move.                                              *)
(***************************************************************************)

\* CuboardBuffer::finish: the keys are drained, with the moves they consumed
buffer_finish(ms, ks) ==
    [moves |-> SubSeq(ms, chunk_end(ks) + 1, Len(ms)), keys |-> <<>>]

\* for &mv in ... { self.input.buffer.input(mv) }
RECURSIVE buffer_input_each(_, _, _)
buffer_input_each(ms, ks, mvs) ==
    IF mvs = <<>>
    THEN [moves |-> ms, keys |-> ks]
    ELSE CHOOSE out \in
            { buffer_input_each(r.moves, r.keys, Tail(mvs)) :
                r \in {buffer_input(ms, ks, Head(mvs))} } :
            TRUE

\* !text[..text.len() - 1].contains('\n')
assertion(text) == ~contains_newline(SubSeq(text, 1, Len(text) - 1))

\* what a call of the handler leaves: the counter, the buffer, the moves it
\* fed, the text it saw, whether it reached the assertion and whether the
\* assertion held (a call that did not reach it has held)
MainResult(cnt, ms, ks, mvs, text, asserted, held) ==
    [count |-> cnt, moves |-> ms, keys |-> ks, fed |-> mvs, text |-> text,
     asserted |-> asserted, held |-> held]

\* the handler from the text on: the assertion, then finish
main_inspect(cnt, ms, ks, mvs, text) ==
    IF ~contains_newline(text)
    THEN MainResult(cnt, ms, ks, mvs, text, FALSE, TRUE)
    ELSE IF ~assertion(text)
    THEN MainResult(cnt, ms, ks, mvs, text, TRUE, FALSE)
    ELSE MainResult(cnt, buffer_finish(ms, ks).moves, buffer_finish(ms, ks).keys,
                    mvs, text, TRUE, TRUE)

\* CuboardInputPrinter::handle_message of main.rs
main_handle_message(cnt, ms, ks, msg) ==
    IF cnt = <<>>
    THEN MainResult(IF msg.kind = "State" THEN <<msg.count>> ELSE <<>>,
                    ms, ks, <<>>, <<>>, FALSE, TRUE)
    ELSE IF msg.kind # "Moves"
    THEN MainResult(cnt, ms, ks, <<>>, <<>>, FALSE, TRUE)
    ELSE CHOOSE out \in
            { main_inspect(<<msg.count>>, b[2].moves, b[2].keys, b[1],
                           buffered_text(b[2].keys)) :
                b \in { <<mvs, buffer_input_each(ms, ks, mvs)>> :
                          mvs \in {accept_moves(msg.moves,
                                                new_slots(msg.count, cnt[1]))} } } :
            TRUE

\* the last seven moves of the cube, the oldest first, as the slots of a
\* Moves message: slot 1 is the most recent move
SlotsOf(turned) == [i \in 1 .. 7 |-> <<turned[8 - i]>>]

\* what the user turned: R' R' F is the key of the newline
MainTurned ==
    {<<U, R, U, R, Rp, Rp, F>>,
     <<L, U, Rp, Rp, F, U, R>>,
     <<B, Rp, Rp, F, Rp, Rp, F>>,
     <<U, U, L, U, R, Rp, Rp>>,
     <<U, R, L, L, B, F, L>>}

MainCounts == {250, 251, 253, 255, 1}

MainMessages ==
    {Msg("State", InitCount, NoSlots), Msg("Disconnect", 0, NoSlots),
     Msg("Battery", 0, NoSlots)}
        \cup {Msg("Moves", c, SlotsOf(t)) : c \in MainCounts, t \in MainTurned}

\* the handler is called with msg; a handler whose assertion failed has
\* panicked and is called no more
MainHandle(msg) ==
    /\ calls < MaxCalls
    /\ IF ui = <<>> THEN TRUE ELSE ui[1].held
    /\ \E r \in {main_handle_message(count, moves, keys, msg)} :
           /\ Len(r.moves) <= MaxHeld
           /\ count' = r.count
           /\ moves' = r.moves
           /\ keys' = r.keys
           /\ hm' = HandlerCall(msg, count, r.fed)
           /\ ui' = <<[text |-> r.text, asserted |-> r.asserted, held |-> r.held]>>
    /\ calls' = calls + 1
    /\ UNCHANGED <<last, inp, parsevars, event, queue, dev_count, dev_moves,
                   unsent, phys, fed, last_made, status, accepted_text, note,
                   decodevars, ended, cursorvars, ciphervars, orientvars>>

NextMain == \E msg \in MainMessages : MainHandle(msg)

SpecMain == Init /\ [][NextMain]_vars

\* C26: when the text that the handler of main.rs sees after a Moves
\* message contains a newline, the newline is its last character and its
\* only newline, so the assertion before the line flush holds.
C26_NewlineAssertionHolds ==
    (ui # <<>> /\ hm.msg.kind = "Moves" /\ contains_newline(ui[1].text)) =>
        /\ ui[1].text[Len(ui[1].text)] = "\n"
        /\ Cardinality({i \in 1 .. Len(ui[1].text) : ui[1].text[i] = "\n"}) = 1
        /\ ui[1].held

(***************************************************************************)
(* SpecTrain: CuboardInputTrainer of src/src/train.rs, handed decoded      *)
(* messages. Of its window of lines the model keeps the length, and how    *)
(* often a call rotated it.                                                *)
(***************************************************************************)

\* margin of CuboardInputTrainer::new: the length of lines
Margin == 3

\* text.split('\n').count(): one more than the newlines of the text
segments(text) == Cardinality({i \in 1 .. Len(text) : text[i] = "\n"}) + 1

\* what a call of the trainer leaves; held is whether lines was indexed
\* within bounds (a call that indexed nothing has held)
TrainerResult(cnt, ms, ks, ev, accepted, text, rotated, held) ==
    [count |-> cnt, moves |-> ms, keys |-> ks, event |-> ev,
     accepted_text |-> accepted, text |-> text, rotated |-> rotated,
     held |-> held]

\* the trainer from text on: lines[decorated_texts.len() - 1] and
\* lines.len() - decorated_texts.len() panic when the text has more segments
\* than lines; else lines is rotated once for each finished segment and the
\* accepted text is drained to its last newline
trainer_show(cnt, ms, ks, ev, accepted, text) ==
    IF segments(text) > Margin
    THEN TrainerResult(cnt, ms, ks, ev, accepted, text, 0, FALSE)
    ELSE TrainerResult(cnt, ms, ks, ev, drain_to_newline(accepted), text,
                       segments(text) - 1, TRUE)

\* CuboardInputTrainer::handle_message after input.handle_message has
\* returned r, an event that is neither Uninit nor Init
trainer_refresh(r, accepted) ==
    CHOOSE out \in
        { trainer_show(r.count, b[1], b[2], r.event, b[3],
                       b[3] \o buffered_text(b[2])) :
            b \in { IF r.event.kind = "Cancel"
                    THEN <<(<<>>), (<<>>), accepted>>
                    ELSE IF r.event.kind \in {"Finish", "Input"}
                    THEN <<r.moves, r.keys, accepted \o r.event.accept>>
                    ELSE <<r.moves, r.keys, accepted>> } } :
        TRUE

\* CuboardInputTrainer::handle_message
trainer_handle_message(cnt, ms, ks, ev, accepted, msg, gesture) ==
    IF msg.kind = "Disconnect"
    THEN TrainerResult(cnt, ms, ks, ev, accepted, <<>>, 0, TRUE)
    ELSE CHOOSE out \in
            { IF r.event.kind \in {"Uninit", "Init"}
              THEN TrainerResult(r.count, ms, ks, r.event, accepted, <<>>, 0, TRUE)
              ELSE trainer_refresh(r, accepted) :
                r \in {handle_message(cnt, ms, ks, msg, gesture)} } :
            TRUE

\* what the user turned: R' R' F is the key of the newline
TrainTurned ==
    {<<F, Rp, Rp, F, Rp, Rp, F>>,
     <<U, R, U, R, U, Rp, Rp>>,
     <<L, U, Rp, Rp, F, U, R>>,
     <<U, R, L, L, B, F, L>>}

\* the counters of the Moves messages: 2, 3, 5 and 9 turns after the State
\* message
TrainCounts == {(InitCount + d) % 256 : d \in {2, 3, 5, 9}}

TrainMessages ==
    {Msg("State", InitCount, NoSlots), Msg("Disconnect", 0, NoSlots),
     Msg("Gyroscope", 0, NoSlots)}
        \cup {Msg("Moves", c, SlotsOf(t)) : c \in TrainCounts, t \in TrainTurned}

\* the trainer is called with msg; a trainer that has panicked is called no
\* more
TrainerHandle(msg, gesture) ==
    /\ calls < MaxCalls
    /\ IF ui = <<>> THEN TRUE ELSE ui[1].held
    /\ msg.kind # "Gyroscope" => gesture = "None"
    /\ \E r \in {trainer_handle_message(count, moves, keys, event,
                                        accepted_text, msg, gesture)} :
           /\ Len(r.moves) <= MaxHeld
           /\ count' = r.count
           /\ moves' = r.moves
           /\ keys' = r.keys
           /\ event' = r.event
           /\ accepted_text' = r.accepted_text
           /\ hm' = HandlerCall(msg, count, <<>>)
           /\ ui' = <<[text |-> r.text, rotated |-> r.rotated, held |-> r.held]>>
    /\ calls' = calls + 1
    /\ UNCHANGED <<last, inp, parsevars, queue, dev_count, dev_moves, unsent,
                   phys, fed, last_made, status, note, decodevars, ended,
                   cursorvars, ciphervars, orientvars>>

NextTrain ==
    \E msg \in TrainMessages : \E gesture \in Gestures : TrainerHandle(msg, gesture)

SpecTrain == Init /\ [][NextTrain]_vars

\* C29: after a Moves message the accepted text and the buffered text
\* together have at most Margin segments, so the trainer indexes lines
\* within its bounds.
C29_TrainerStaysInWindow ==
    (ui # <<>> /\ hm.msg.kind = "Moves") =>
        /\ segments(ui[1].text) <= Margin
        /\ ui[1].held

(***************************************************************************)
(* C30: how the task of register_handler ends.                             *)
(***************************************************************************)
\* the task stops running: it returns, or a panic unwinds it
TaskEnds == status = "running" /\ status' # "running"

\* C30: the task ends only in a turn of the loop that hands a Disconnect
\* message to the handler; a notification of another characteristic, a
\* payload that decode refuses and the end of the stream leave it running,
\* so a task whose stream has ended with no Disconnect frame left runs on
\* for ever.
C30_TaskEndsOnlyOnDisconnect ==
    [][ /\ TaskEnds => (DisconnectTaken /\ calls' = calls + 1)
        /\ TaskEnds => status' = "returned"
        /\ (ended /\ queue = <<>> /\ status = "running") => status' = "running"
      ]_vars

====
